---- MODULE Spec2Model ----
(***************************************************************************)
(* Model of the anon-tool pseudonymisation core:                           *)
(*   backend/app/services/mapping_store.py  (MappingStore, labels)         *)
(*   backend/app/services/detector.py       (detection pipeline)           *)
(*   backend/app/services/anonymizer.py     (anonymize / deanonymize)      *)
(*                                                                         *)
(* A Python str is a sequence of one-character strings.  A confidence is   *)
(* an integer number of hundredths (0.65 is 65).  A dict is a sequence of  *)
(* records in insertion order, as Python and the JSON file keep it.        *)
(***************************************************************************)
EXTENDS Integers, Sequences, FiniteSets, TLC

VARIABLES
    pc,               \* name of the operation that produced this state
    files,            \* mappings directory: id -> <<>> (no file) or <<data>>
    mapping_id,       \* MappingStore._mapping_id ("None" before create_or_load)
    data,             \* MappingStore._data
    clock,            \* datetime.now(): the next timestamp handed out
    ret,              \* what the last call returned or raised
    text,             \* the text argument of the operation
    min_confidence,   \* detect_entities' threshold
    all_entities,     \* the list handed to _deduplicate
    deduped,          \* what _deduplicate returned
    entities,         \* what detect_entities returned
    anonymized_text,  \* AnonymizeResult.anonymized_text
    restored,         \* what deanonymize_text returned
    candidates,       \* the span list before verification
    verifier,         \* how the verifier behaved in this call
    ops,              \* the anonymize operations running side by side
    index,            \* argument of _next_letter_label
    label,            \* what _next_letter_label returned
    disk,             \* the document files: path -> <<>> (no file) or <<content>>
    bulk              \* the run of anonymize_folder: its folder, position and summary

vars == <<pc, files, mapping_id, data, clock, ret, text, min_confidence,
          all_entities, deduped, entities, anonymized_text, restored, candidates,
          verifier, ops, index, label, disk, bulk>>

storeVars == <<files, mapping_id, data, clock, ret>>
detectVars == <<text, min_confidence, all_entities, deduped, entities>>
rewriteVars == <<anonymized_text, restored, candidates, verifier, ops>>
labelVars == <<index, label>>
fileVars == <<disk, bulk>>

-----------------------------------------------------------------------------
(* Strings *)

Range(s) == {s[i] : i \in 1..Len(s)}

\* s[a:b] of Python, for 0 <= a and any b (clamped to the length).
Slice(s, a, b) == SubSeq(s, a + 1, IF b > Len(s) THEN Len(s) ELSE b)

\* str(n) for n >= 0.
DecimalDigits == <<"0", "1", "2", "3", "4", "5", "6", "7", "8", "9">>

RECURSIVE Decimal(_)
Decimal(n) ==
    IF n < 10 THEN <<DecimalDigits[n + 1]>>
    ELSE Decimal(n \div 10) \o <<DecimalDigits[(n % 10) + 1]>>

\* All sequences over S of length 0..n.
RECURSIVE SeqsUpTo(_, _)
SeqsUpTo(S, n) ==
    IF n = 0 THEN {<<>>}
    ELSE LET shorter == SeqsUpTo(S, n - 1)
         IN shorter \cup {Append(s, x) : s \in {t \in shorter : Len(t) = n - 1}, x \in S}

-----------------------------------------------------------------------------
(* mapping_store.py *)

ascii_uppercase ==
    <<"A", "B", "C", "D", "E", "F", "G", "H", "I", "J", "K", "L", "M",
      "N", "O", "P", "Q", "R", "S", "T", "U", "V", "W", "X", "Y", "Z">>

\* The while-loop of _next_letter_label: i is the loop variable, result the
\* label built so far.
RECURSIVE LabelLoop(_, _)
LabelLoop(i, result) ==
    LET r == <<ascii_uppercase[(i % 26) + 1]>> \o result
        n == (i \div 26) - 1
    IN IF n < 0 THEN r ELSE LabelLoop(n, r)

\* A slip in the carry: i // 26 without the - 1.
next_letter_label_nocarry(i) ==
    IF i < 26 THEN <<ascii_uppercase[i + 1]>>
    ELSE <<ascii_uppercase[((i \div 26) % 26) + 1], ascii_uppercase[(i % 26) + 1]>>

next_letter_label(i) ==
    IF i < 26 THEN <<ascii_uppercase[i + 1]>> ELSE LabelLoop(i, <<>>)

PersonPrefix == <<"P", "e", "r", "s", "o", "n", "_">>
CompanyPrefix == <<"C", "o", "m", "p", "a", "n", "y", "_">>
EmailPrefix == <<"E", "m", "a", "i", "l", "_">>
PhonePrefix == <<"P", "h", "o", "n", "e", "_">>
EntityPrefix == <<"E", "n", "t", "i", "t", "y", "_">>

generate_pseudonym(entity_type, i) ==
    CASE entity_type = "PERSON" -> PersonPrefix \o next_letter_label(i)
      [] entity_type = "ORG" -> CompanyPrefix \o Decimal(i + 1)
      [] entity_type = "EMAIL" -> EmailPrefix \o Decimal(i + 1)
      [] entity_type = "PHONE" -> PhonePrefix \o Decimal(i + 1)
      [] OTHER -> EntityPrefix \o Decimal(i + 1)

\* The entries dict: a sequence of [name, pseudonym, type] in insertion order.
\* The mutant of HasEntry: the lookup never finds the name.
HasEntry_never(entries, real_name) == FALSE

HasEntry(entries, real_name) == \E k \in 1..Len(entries) : entries[k].name = real_name

EntryOf(entries, real_name) ==
    entries[CHOOSE k \in 1..Len(entries) : entries[k].name = real_name]

\* sum(1 for e in entries.values() if e["type"] == entity_type)
existing_count_all(entries, entity_type) == Len(entries)

existing_count(entries, entity_type) ==
    Cardinality({k \in 1..Len(entries) : entries[k].type = entity_type})

NoTime == 0
NoId == "None"

\* _data = {} as __init__ leaves it.
EmptyData == [mapping_id |-> NoId, created |-> NoTime, updated |-> NoTime, entries |-> <<>>]

\* The dict create_or_load builds when no file exists.
FreshData(id, now) == [mapping_id |-> id, created |-> now, updated |-> now, entries |-> <<>>]

get_entries(d) == d.entries

\* {v["pseudonym"]: k for k, v in entries.items()}: a later entry with the
\* same pseudonym overwrites the value and keeps the key's first position.
RECURSIVE ReverseOf(_)
ReverseOf(entries) ==
    IF entries = <<>> THEN <<>>
    ELSE LET init == ReverseOf(SubSeq(entries, 1, Len(entries) - 1))
             e == entries[Len(entries)]
             item == [pseudonym |-> e.pseudonym, name |-> e.name]
         IN IF \E k \in 1..Len(init) : init[k].pseudonym = e.pseudonym
            THEN [k \in 1..Len(init) |->
                    IF init[k].pseudonym = e.pseudonym THEN item ELSE init[k]]
            ELSE Append(init, item)

get_reverse_lookup(d) == ReverseOf(d.entries)

\* One call of get_pseudonym on the dict d at time now: the dict afterwards,
\* the pseudonym returned and the clock afterwards.
get_pseudonym_bump(d, real_name, entity_type, now) ==
    LET entries == d.entries
        pseudonym == generate_pseudonym(entity_type, existing_count(entries, entity_type))
    IN IF HasEntry(entries, real_name)
       THEN [data |-> [d EXCEPT !.updated = now],
             pseudonym |-> EntryOf(entries, real_name).pseudonym, now |-> now + 1]
       ELSE [data |-> [d EXCEPT !.entries = Append(entries,
                          [name |-> real_name, pseudonym |-> pseudonym, type |-> entity_type]),
                          !.updated = now],
             pseudonym |-> pseudonym, now |-> now + 1]

get_pseudonym(d, real_name, entity_type, now) ==
    LET entries == d.entries
        pseudonym == generate_pseudonym(entity_type, existing_count(entries, entity_type))
    IN IF HasEntry(entries, real_name)
       THEN [data |-> d, pseudonym |-> EntryOf(entries, real_name).pseudonym, now |-> now]
       ELSE [data |-> [d EXCEPT !.entries = Append(entries,
                          [name |-> real_name, pseudonym |-> pseudonym, type |-> entity_type]),
                          !.updated = now],
             pseudonym |-> pseudonym, now |-> now + 1]

\* The mutant of create_or_load: the file is not read, the mapping is built
\* anew every time.
create_or_load_fresh(fs, id, now) == [data |-> FreshData(id, now), now |-> now + 1]

\* create_or_load on the directory fs: the dict it leaves in _data and the
\* clock afterwards.
create_or_load(fs, id, now) ==
    IF fs[id] # <<>>
    THEN [data |-> fs[id][1], now |-> now]
    ELSE [data |-> FreshData(id, now), now |-> now + 1]

\* The mutant of save: the entries already in the file are kept and the names
\* new to it are added.
save_merging(fs, id, d, now) ==
    LET kept == IF fs[id] = <<>> THEN <<>> ELSE fs[id][1].entries
        New(e) == ~HasEntry(kept, e.name)
        written == [d EXCEPT !.entries = kept \o SelectSeq(d.entries, New), !.updated = now]
    IN [files |-> [fs EXCEPT ![id] = <<written>>], data |-> [d EXCEPT !.updated = now],
        now |-> now + 1]

\* save of the dict d under id (id is set): the directory afterwards, the dict
\* afterwards and the clock afterwards.
save(fs, id, d, now) ==
    LET written == [d EXCEPT !.updated = now]
    IN [files |-> [fs EXCEPT ![id] = <<written>>], data |-> written, now |-> now + 1]

-----------------------------------------------------------------------------
(* detector.py: characters and the two patterns *)

ascii_lowercase ==
    <<"a", "b", "c", "d", "e", "f", "g", "h", "i", "j", "k", "l", "m",
      "n", "o", "p", "q", "r", "s", "t", "u", "v", "w", "x", "y", "z">>

Upper == Range(ascii_uppercase)
Letter == Range(ascii_uppercase) \cup Range(ascii_lowercase)
Digit == Range(DecimalDigits)
\* \w and \s of the re module, str.split() and str.strip(), on ASCII text.
WordChar == Letter \cup Digit \cup {"_"}
WhiteSpace == {" ", "\t", "\n", "\r"}

Max(S) == CHOOSE x \in S : \A y \in S : y <= x
Min(S) == CHOOSE x \in S : \A y \in S : x <= y

\* How many characters of s from offset pos on lie in cls.
RunLength(s, pos, cls) ==
    Max({n \in 0..(Len(s) - pos) : \A i \in 1..n : s[pos + i] \in cls})

\* A pattern is a sequence of items: a character class repeated lo..hi times
\* (hi = -1: no upper limit).  MatchEnds is the set of offsets at which the
\* items k.. can end when they start at offset pos of s.
RECURSIVE MatchEnds(_, _, _, _)
MatchEnds(pat, k, s, pos) ==
    IF k > Len(pat) THEN {pos}
    ELSE LET run == RunLength(s, pos, pat[k].cls)
             most == IF pat[k].hi < 0 \/ run < pat[k].hi THEN run ELSE pat[k].hi
         IN UNION {MatchEnds(pat, k + 1, s, pos + n) : n \in pat[k].lo..most}

\* \b at offset pos of s.
WordBoundary(s, pos) ==
    LET before == pos >= 1 /\ s[pos] \in WordChar
        after == pos < Len(s) /\ s[pos + 1] \in WordChar
    IN before # after

\* EMAIL_PATTERN: \b[A-Za-z0-9._%+-]+@[A-Za-z0-9.-]+\.[A-Za-z]{2,}\b
EMAIL_PATTERN ==
    <<[cls |-> Letter \cup Digit \cup {".", "_", "%", "+", "-"}, lo |-> 1, hi |-> -1],
      [cls |-> {"@"}, lo |-> 1, hi |-> 1],
      [cls |-> Letter \cup Digit \cup {".", "-"}, lo |-> 1, hi |-> -1],
      [cls |-> {"."}, lo |-> 1, hi |-> 1],
      [cls |-> Letter, lo |-> 2, hi |-> -1]>>

\* The three alternatives of PHONE_PATTERN, in the order the pattern tries them.
PhoneSep == WhiteSpace \cup {".", "-"}

PHONE_PATTERN ==
    <<  \* \(\d{3}\)\s*\d{3}[.\-\s]?\d{4}
      <<[cls |-> {"("}, lo |-> 1, hi |-> 1],
        [cls |-> Digit, lo |-> 3, hi |-> 3],
        [cls |-> {")"}, lo |-> 1, hi |-> 1],
        [cls |-> WhiteSpace, lo |-> 0, hi |-> -1],
        [cls |-> Digit, lo |-> 3, hi |-> 3],
        [cls |-> PhoneSep, lo |-> 0, hi |-> 1],
        [cls |-> Digit, lo |-> 4, hi |-> 4]>>,
        \* \d{3}[.\-\s]\d{3}[.\-\s]\d{4}
      <<[cls |-> Digit, lo |-> 3, hi |-> 3],
        [cls |-> PhoneSep, lo |-> 1, hi |-> 1],
        [cls |-> Digit, lo |-> 3, hi |-> 3],
        [cls |-> PhoneSep, lo |-> 1, hi |-> 1],
        [cls |-> Digit, lo |-> 4, hi |-> 4]>>,
        \* \+?1?[\s.-]?\(?\d{3}\)?[\s.-]?\d{3}[\s.-]?\d{4}
      <<[cls |-> {"+"}, lo |-> 0, hi |-> 1],
        [cls |-> {"1"}, lo |-> 0, hi |-> 1],
        [cls |-> PhoneSep, lo |-> 0, hi |-> 1],
        [cls |-> {"("}, lo |-> 0, hi |-> 1],
        [cls |-> Digit, lo |-> 3, hi |-> 3],
        [cls |-> {")"}, lo |-> 0, hi |-> 1],
        [cls |-> PhoneSep, lo |-> 0, hi |-> 1],
        [cls |-> Digit, lo |-> 3, hi |-> 3],
        [cls |-> PhoneSep, lo |-> 0, hi |-> 1],
        [cls |-> Digit, lo |-> 4, hi |-> 4]>>>>

\* The offsets at which EMAIL_PATTERN can end when it starts at offset pos.
EmailEnds(s, pos) ==
    IF WordBoundary(s, pos)
    THEN {e \in MatchEnds(EMAIL_PATTERN, 1, s, pos) : WordBoundary(s, e)}
    ELSE {}

\* The same for alternative a of PHONE_PATTERN, with (?<!\d) and (?!\d).
PhoneAltEnds(s, pos, a) ==
    IF pos >= 1 /\ s[pos] \in Digit THEN {}
    ELSE {e \in MatchEnds(PHONE_PATTERN[a], 1, s, pos) : ~(e < Len(s) /\ s[e + 1] \in Digit)}

\* The first alternative that matches at pos decides the ends.
PhoneFirstAlt(s, pos, alts) ==
    IF alts = {} THEN {} ELSE PhoneAltEnds(s, pos, Min(alts))

PhoneEnds(s, pos) ==
    PhoneFirstAlt(s, pos, {a \in 1..Len(PHONE_PATTERN) : PhoneAltEnds(s, pos, a) # {}})

\* pattern.finditer(text) from offset pos on: the leftmost match, the longest
\* it can be, then the matches after its end.
RECURSIVE EmailMatches(_, _)
EmailSpan(s, a, b) == <<[start |-> a, end |-> b]>> \o EmailMatches(s, b)

EmailLeftmost(s, starts) ==
    IF starts = {} THEN <<>>
    ELSE EmailSpan(s, Min(starts), Max(EmailEnds(s, Min(starts))))

EmailMatches(s, pos) ==
    EmailLeftmost(s, {p \in pos..Len(s) : EmailEnds(s, p) # {}})

RECURSIVE PhoneMatches(_, _)
PhoneSpan(s, a, b) == <<[start |-> a, end |-> b]>> \o PhoneMatches(s, b)

PhoneLeftmost(s, starts) ==
    IF starts = {} THEN <<>>
    ELSE PhoneSpan(s, Min(starts), Max(PhoneEnds(s, Min(starts))))

PhoneMatches(s, pos) ==
    PhoneLeftmost(s, {p \in pos..Len(s) : PhoneEnds(s, p) # {}})

DetectedEntity(s, entity_type, a, b, confidence, source) ==
    [text |-> s, entity_type |-> entity_type, start |-> a, end |-> b,
     confidence |-> confidence, source |-> source]

detect_regex(s) ==
    LET emails == EmailMatches(s, 0)
        phones == PhoneMatches(s, 0)
    IN [k \in 1..Len(emails) |->
          DetectedEntity(Slice(s, emails[k].start, emails[k].end), "EMAIL",
                         emails[k].start, emails[k].end, 95, "regex")]
       \o
       [k \in 1..Len(phones) |->
          DetectedEntity(Slice(s, phones[k].start, phones[k].end), "PHONE",
                         phones[k].start, phones[k].end, 90, "regex")]

-----------------------------------------------------------------------------
(* detector.py: recognizer spans, de-duplication, filter *)

\* len(s.split()): the number of maximal runs of non-whitespace.
WordCount(s) ==
    Cardinality({i \in 1..Len(s) :
        s[i] \notin WhiteSpace /\ (i = 1 \/ s[i - 1] \in WhiteSpace)})

estimate_confidence(s) ==
    IF WordCount(s) >= 2 THEN 90
    ELSE IF WordCount(s) = 1 /\ s[1] \in Upper THEN 80
    ELSE 60

\* Scaled stand-in for _MAX_CHUNK_SIZE = 900_000.
MAX_CHUNK_SIZE == 3

\* text.rfind("\n", a, b): the highest offset in [a, b) holding a newline, or -1.
RFindNewline(s, a, b) ==
    LET hits == {i \in a..(b - 1) : i < Len(s) /\ s[i + 1] = "\n"}
    IN IF hits = {} THEN -1 ELSE Max(hits)

\* The mutant of ChunkLoop: every split is at the ceiling.
RECURSIVE ChunkLoop_hardcut(_, _)
ChunkLoop_hardcut(s, start) ==
    IF ~(start < Len(s)) THEN <<>>
    ELSE LET end == start + MAX_CHUNK_SIZE
         IN IF end >= Len(s)
            THEN <<[chunk |-> Slice(s, start, Len(s)), offset |-> start]>>
            ELSE <<[chunk |-> Slice(s, start, end), offset |-> start]>>
                 \o ChunkLoop_hardcut(s, end)

\* The while-loop of _split_into_chunks from offset start on.
RECURSIVE ChunkLoop(_, _)
ChunkLoop(s, start) ==
    IF ~(start < Len(s)) THEN <<>>
    ELSE LET end == start + MAX_CHUNK_SIZE
         IN IF end >= Len(s)
            THEN <<[chunk |-> Slice(s, start, Len(s)), offset |-> start]>>
            ELSE LET found == RFindNewline(s, start, end)
                     split_at == IF found <= start THEN end ELSE found + 1
                 IN <<[chunk |-> Slice(s, start, split_at), offset |-> start]>>
                    \o ChunkLoop(s, split_at)

split_into_chunks(s) ==
    IF Len(s) <= MAX_CHUNK_SIZE THEN <<[chunk |-> s, offset |-> 0]>>
    ELSE ChunkLoop(s, 0)

\* What the recognizer may return for the chunks: a list of
\* [chunk, label_, start_char, end_char], the chunks in order, each span a
\* non-empty range of its chunk.  GPE stands for the labels other than
\* PERSON and ORG.
MaxEnts == 2
Labels == {"PERSON", "ORG", "GPE"}

ChunkEnts(chunks) ==
    {[chunk |-> c, label_ |-> l, start_char |-> a, end_char |-> b] :
        c \in 1..Len(chunks), l \in Labels, a \in 0..MAX_CHUNK_SIZE, b \in 1..MAX_CHUNK_SIZE}

DocEnts(chunks) ==
    {ents \in SeqsUpTo({e \in ChunkEnts(chunks) :
                           e.start_char < e.end_char /\ e.end_char <= Len(chunks[e.chunk].chunk)},
                       MaxEnts) :
        \A k \in 1..(Len(ents) - 1) : ents[k].chunk <= ents[k + 1].chunk}

SelectSeq2(s, keep) ==
    LET F[k \in 0..Len(s)] ==
            IF k = 0 THEN <<>>
            ELSE IF k \in keep THEN Append(F[k - 1], s[k]) ELSE F[k - 1]
    IN F[Len(s)]

\* The mutant of NerEntity: the chunk's offset forgotten.
NerEntity_nooffset(chunks, e) ==
    LET t == Slice(chunks[e.chunk].chunk, e.start_char, e.end_char)
    IN DetectedEntity(t, e.label_, e.start_char, e.end_char, estimate_confidence(t), "spacy")

\* The DetectedEntity _detect_ner builds for one ent of one chunk.
NerEntity(chunks, e) ==
    LET t == Slice(chunks[e.chunk].chunk, e.start_char, e.end_char)
        offset == chunks[e.chunk].offset
    IN DetectedEntity(t, e.label_, e.start_char + offset, e.end_char + offset,
                      estimate_confidence(t), "spacy")

\* _detect_ner, given the ents the recognizer returned for the chunks.
detect_ner(s, ents) ==
    LET chunks == split_into_chunks(s)
        kept == SelectSeq2(ents, {k \in 1..Len(ents) : ents[k].label_ \in {"PERSON", "ORG"}})
    IN [k \in 1..Len(kept) |-> NerEntity(chunks, kept[k])]

\* The two windows of _is_inside_email.
BeforeWindow == 50
AfterWindow == 10

is_inside_email(ent, s) ==
    IF ent.entity_type \in {"EMAIL", "PHONE"} THEN FALSE
    ELSE LET search_start == IF ent.start - BeforeWindow > 0 THEN ent.start - BeforeWindow ELSE 0
             before == Slice(s, search_start, ent.start)
             after == Slice(s, ent.end, ent.end + AfterWindow)
             ats == {i \in 1..Len(before) : before[i] = "@"}
             has_at_before ==
                 /\ ats # {}
                 /\ \A i \in Max(ats)..Len(before) : before[i] # " "
             \* re.match(r"\.[A-Za-z]{2,}\b", after)
             has_tld_after ==
                 \E e \in MatchEnds(<<[cls |-> {"."}, lo |-> 1, hi |-> 1],
                                      [cls |-> Letter, lo |-> 2, hi |-> -1]>>, 1, after, 0) :
                     WordBoundary(after, e)
         IN has_at_before /\ has_tld_after

\* Lexicographic order on tuples of integers of one length.
LexLess(a, b) ==
    \E i \in 1..Len(a) : a[i] < b[i] /\ \A j \in 1..(i - 1) : a[j] = b[j]

\* sorted(s, key=...): stable, key[k] the key of s[k].
Sorted(s, key) ==
    LET n == Len(s)
        pos(i) == 1 + Cardinality({j \in 1..n :
                        LexLess(key[j], key[i]) \/ (key[j] = key[i] /\ j < i)})
    IN [p \in 1..n |-> s[CHOOSE i \in 1..n : pos(i) = p]]

\* The mutant of Overlaps: a span inside an accepted one goes unnoticed.
Overlaps_partial(ent, accepted) == ent.start < accepted.end /\ ent.end > accepted.end

Overlaps(ent, accepted) == ent.start < accepted.end /\ ent.end > accepted.start

\* The mutant of DedupKey: the start descending.
DedupKey_rightmost(e) == <<0 - e.start, 0 - (e.end - e.start), 0 - e.confidence>>

\* The mutant of DedupKey: the length ascending.
DedupKey_shortest(e) == <<e.start, e.end - e.start, 0 - e.confidence>>

\* The sort key of _deduplicate.
DedupKey(e) == <<e.start, 0 - (e.end - e.start), 0 - e.confidence>>

\* The for-loop of _deduplicate over sorted_ents[k..], result the accepted list.
RECURSIVE DedupLoop(_, _, _, _)
DedupLoop(sorted_ents, k, s, result) ==
    IF k > Len(sorted_ents) THEN result
    ELSE LET ent == sorted_ents[k]
         IN IF s # <<>> /\ is_inside_email(ent, s)
            THEN DedupLoop(sorted_ents, k + 1, s, result)
            ELSE IF \E a \in 1..Len(result) : Overlaps(ent, result[a])
            THEN DedupLoop(sorted_ents, k + 1, s, result)
            ELSE DedupLoop(sorted_ents, k + 1, s, Append(result, ent))

deduplicate(ents, s) ==
    IF ents = <<>> THEN <<>>
    ELSE DedupLoop(Sorted(ents, [k \in 1..Len(ents) |-> DedupKey(ents[k])]), 1, s, <<>>)

\* The mutant of Keeps: no multi-word exemption.
Keeps_nowords(e, min_conf) == e.confidence >= min_conf

\* The condition of detect_entities' list comprehension.
Keeps(e, min_conf) == e.confidence >= min_conf \/ WordCount(e.text) > 1

\* sorted(filtered, key=lambda e: e.start)
SortByStart(ents) == Sorted(ents, [k \in 1..Len(ents) |-> <<ents[k].start>>])

\* The default of detect_entities' min_confidence.
DefaultMinConfidence == 65

\* detect_entities, given what _detect_regex and the recognizer returned: the
\* list handed to _deduplicate, its result and the returned list.
detect_entities(s, min_conf, regex_entities, ents) ==
    LET ner_entities == detect_ner(s, ents)
        all == regex_entities \o ner_entities
        dd == deduplicate(all, s)
        filtered == SelectSeq2(dd, {k \in 1..Len(dd) : Keeps(dd[k], min_conf)})
    IN [all_entities |-> all, deduped |-> dd, entities |-> SortByStart(filtered)]

-----------------------------------------------------------------------------
(* anonymizer.py *)

\* s.replace(old, new) for a non-empty old: the occurrences of old from left
\* to right, none overlapping another.
RECURSIVE Replace(_, _, _)
Replace(s, old, new) ==
    IF Len(s) < Len(old) THEN s
    ELSE IF SubSeq(s, 1, Len(old)) = old
    THEN new \o Replace(SubSeq(s, Len(old) + 1, Len(s)), old, new)
    ELSE <<s[1]>> \o Replace(Tail(s), old, new)

\* The for-loop of step 3 over sorted_entities[k..]: the dict, the text and
\* the clock afterwards.
RECURSIVE SubstituteLoop(_, _, _, _, _)
SubstituteLoop(sorted_entities, k, d, result_text, now) ==
    IF k > Len(sorted_entities)
    THEN [data |-> d, result_text |-> result_text, now |-> now]
    ELSE LET entity == sorted_entities[k]
             got == get_pseudonym(d, entity.text, entity.entity_type, now)
         IN SubstituteLoop(sorted_entities, k + 1, got.data,
                           Slice(result_text, 0, entity.start) \o got.pseudonym
                               \o Slice(result_text, entity.end, Len(result_text)),
                           got.now)

\* for old, new in pairs[k..]: result = result.replace(old, new)
RECURSIVE ReplaceEach(_, _, _)
ReplaceEach(pairs, k, result) ==
    IF k > Len(pairs) THEN result
    ELSE ReplaceEach(pairs, k + 1, Replace(result, pairs[k].old, pairs[k].new))

\* The mutant of LongestFirst: the pairs in the order of the mapping.
LongestFirst_unsorted(pairs) == pairs

\* sorted(..., key=len, reverse=True): stable, the longest first.
LongestFirst(pairs) == Sorted(pairs, [k \in 1..Len(pairs) |-> <<0 - Len(pairs[k].old)>>])

\* sorted(entities, key=lambda e: e.start, reverse=True)
RightToLeft(ents) == Sorted(ents, [k \in 1..Len(ents) |-> <<0 - ents[k].start>>])

\* The (real name, pseudonym) pairs of the second pass, in its order.
SecondPass(entries) ==
    LongestFirst([k \in 1..Len(entries) |->
                    [old |-> entries[k].name, new |-> entries[k].pseudonym]])

\* anonymize_text from step 2 on, given the list detect_entities returned: the
\* directory, the text returned and the clock afterwards.
anonymize_text(fs, s, id, ents, now) ==
    LET loaded == create_or_load(fs, id, now)
        sub == SubstituteLoop(RightToLeft(ents), 1, loaded.data, s, loaded.now)
        result_text == ReplaceEach(SecondPass(get_entries(sub.data)), 1, sub.result_text)
        saved == save(fs, id, sub.data, sub.now)
    IN [files |-> saved.files, anonymized_text |-> result_text, now |-> saved.now]

\* deanonymize_text: the text returned and the clock afterwards.
deanonymize_text(fs, s, id, now) ==
    LET loaded == create_or_load(fs, id, now)
        reverse == get_reverse_lookup(loaded.data)
        sorted_pseudonyms ==
            LongestFirst([k \in 1..Len(reverse) |->
                            [old |-> reverse[k].pseudonym, new |-> reverse[k].name]])
    IN [result |-> IF get_entries(loaded.data) = <<>> THEN s
                   ELSE ReplaceEach(sorted_pseudonyms, 1, s),
        now |-> loaded.now]

-----------------------------------------------------------------------------
(* ollama_client.py and step 1b of anonymize_text *)

\* What json.loads makes of the reply is given by its outcome: "undecodable"
\* (JSONDecodeError), "null", "number", or a "string", an "object" or an
\* "array" with the items iterating over it yields.  An item is a "scalar"
\* (anything but a JSON object) or an "object" whose "text" member is missing,
\* unhashable or a str and whose "is_valid" member is missing, true or false.
NoText == [kind |-> "missing", value |-> <<>>]
Unhashable == [kind |-> "unhashable", value |-> <<>>]
Str(s) == [kind |-> "str", value |-> s]
Scalar == [kind |-> "scalar", text |-> NoText, is_valid |-> "missing"]
Object(t, v) == [kind |-> "object", text |-> t, is_valid |-> v]

\* The mutant of ValidTexts: is_valid is not looked at.
RECURSIVE ValidTexts_unconditional(_, _, _)
ValidTexts_unconditional(items, k, acc) ==
    IF k > Len(items) THEN [raised |-> "", valid_texts |-> acc]
    ELSE IF items[k].kind # "object" THEN [raised |-> "AttributeError", valid_texts |-> {}]
    ELSE IF items[k].text.kind = "missing" THEN [raised |-> "KeyError", valid_texts |-> {}]
    ELSE IF items[k].text.kind = "unhashable" THEN [raised |-> "TypeError", valid_texts |-> {}]
    ELSE ValidTexts_unconditional(items, k + 1, acc \cup {items[k].text.value})

\* The set comprehension of _parse_verification over items[k..]: the
\* condition item.get("is_valid", True) first, item["text"] when it holds.
RECURSIVE ValidTexts(_, _, _)
ValidTexts(items, k, acc) ==
    IF k > Len(items) THEN [raised |-> "", valid_texts |-> acc]
    ELSE IF items[k].kind # "object" THEN [raised |-> "AttributeError", valid_texts |-> {}]
    ELSE IF items[k].is_valid = "false" THEN ValidTexts(items, k + 1, acc)
    ELSE IF items[k].text.kind = "missing" THEN [raised |-> "KeyError", valid_texts |-> {}]
    ELSE IF items[k].text.kind = "unhashable" THEN [raised |-> "TypeError", valid_texts |-> {}]
    ELSE ValidTexts(items, k + 1, acc \cup {items[k].text.value})

\* _parse_verification: the list returned, or the exception it lets through.
parse_verification(reply, original_entities) ==
    IF reply.kind = "undecodable" THEN [raised |-> "", result |-> original_entities]
    ELSE IF reply.kind \in {"null", "number"} THEN [raised |-> "", result |-> original_entities]
    ELSE LET v == ValidTexts(reply.items, 1, {})
         IN IF v.raised \in {"KeyError", "TypeError"}
            THEN [raised |-> "", result |-> original_entities]
            ELSE IF v.raised # "" THEN [raised |-> v.raised, result |-> <<>>]
            ELSE [raised |-> "",
                  result |-> SelectSeq2(original_entities,
                                {k \in 1..Len(original_entities) :
                                    original_entities[k].text \in v.valid_texts})]

\* is_available: True on status 200; ConnectError and TimeoutException are
\* caught, any other exception gets through.
is_available(b) ==
    IF b.probe = "200" THEN [raised |-> "", value |-> TRUE]
    ELSE IF b.probe \in {"503", "ConnectError", "TimeoutException"}
    THEN [raised |-> "", value |-> FALSE]
    ELSE [raised |-> b.probe, value |-> FALSE]

\* verify_entities: whatever the post, raise_for_status, response.json() or
\* _parse_verification raise is caught and the list given is returned.
verify_entities(b, ents) ==
    IF ents = <<>> THEN ents
    ELSE IF b.post # "ok" THEN ents
    ELSE LET parsed == parse_verification(b.reply, ents)
         IN IF parsed.raised # "" THEN ents ELSE parsed.result

\* Step 1b with use_ollama: the try block, then except Exception: pass.
verify_step(b, ents) ==
    LET available == is_available(b)
    IN IF available.raised # "" THEN [raised |-> "", entities |-> ents]
       ELSE IF available.value THEN [raised |-> "", entities |-> verify_entities(b, ents)]
       ELSE [raised |-> "", entities |-> ents]

-----------------------------------------------------------------------------
(* Defaults for the variables a specification does not use *)

NoRet == [call |-> "", real_name |-> <<>>, entity_type |-> "", value |-> <<>>, raised |-> ""]

MappingIds == {"m1", "m2"}

NoFiles == [id \in MappingIds |-> <<>>]

StoreIdle ==
    /\ files = NoFiles
    /\ mapping_id = NoId
    /\ data = EmptyData
    /\ clock = 1
    /\ ret = NoRet

DetectIdle ==
    /\ text = <<>>
    /\ min_confidence = 65
    /\ all_entities = <<>>
    /\ deduped = <<>>
    /\ entities = <<>>

\* use_ollama=False: the verifier is not asked.
NoVerifier == [probe |-> "", post |-> "", reply |-> [kind |-> "", items |-> <<>>]]

RewriteIdle ==
    /\ anonymized_text = <<>>
    /\ restored = <<>>
    /\ candidates = <<>>
    /\ verifier = NoVerifier
    /\ ops = <<>>

LabelIdle ==
    /\ index = 0
    /\ label = <<>>

\* The paths documents are read from and written to.  The last one is where
\* anonymize_file puts the result of in.txt when no output_path is given.
DocPaths == {"in.txt", "in.csv", "gone.txt", "out.txt", "output/in.anon.txt"}

NoDisk == [p \in DocPaths |-> <<>>]

\* No run of anonymize_folder.
NoBulk ==
    [pc |-> "idle", kind |-> "", listing |-> <<>>, sorted |-> <<>>, next |-> 0,
     sections |-> <<>>, failed_files |-> <<>>, files_processed |-> 0, files_failed |-> 0,
     total_entities |-> 0, raised |-> ""]

FileIdle ==
    /\ disk = NoDisk
    /\ bulk = NoBulk

-----------------------------------------------------------------------------
(* SpecStore: the MappingStore object, one call per step *)

\* Timestamps handed out in one behaviour.
MaxClock == 5

\* Real names and entity types the calls are made with.  GPE and LOC stand
\* for the types the generator has no branch for.
StoreNames == {<<"B">>, <<"B", "a">>, <<"a", " ", "B">>}
EntityTypes == {"PERSON", "ORG", "EMAIL", "PHONE", "GPE", "LOC"}

StoreInit ==
    /\ pc = "start"
    /\ StoreIdle /\ DetectIdle /\ RewriteIdle /\ LabelIdle /\ FileIdle

\* MappingStore(base_dir): a new object over the same directory.
StoreNew ==
    /\ pc' = "__init__"
    /\ mapping_id' = NoId
    /\ data' = EmptyData
    /\ ret' = [NoRet EXCEPT !.call = "__init__"]
    /\ UNCHANGED <<files, clock, detectVars, rewriteVars, labelVars, fileVars>>

StoreCreateOrLoad(id) ==
    LET r == create_or_load(files, id, clock)
    IN /\ r.now <= MaxClock
       /\ pc' = "create_or_load"
       /\ mapping_id' = id
       /\ data' = r.data
       /\ clock' = r.now
       /\ ret' = [NoRet EXCEPT !.call = "create_or_load"]
       /\ UNCHANGED <<files, detectVars, rewriteVars, labelVars, fileVars>>

StoreGetPseudonym(real_name, entity_type) ==
    LET r == get_pseudonym(data, real_name, entity_type, clock)
    IN /\ r.now <= MaxClock
       /\ pc' = "get_pseudonym"
       /\ data' = r.data
       /\ clock' = r.now
       /\ ret' = [NoRet EXCEPT !.call = "get_pseudonym", !.real_name = real_name,
                               !.entity_type = entity_type, !.value = r.pseudonym]
       /\ UNCHANGED <<files, mapping_id, detectVars, rewriteVars, labelVars, fileVars>>

\* The mutant of StoreSaveRaises: the check of _mapping_id is gone and save
\* returns without a word.
StoreSaveRaises_silent ==
    /\ mapping_id = NoId
    /\ pc' = "save"
    /\ ret' = [NoRet EXCEPT !.call = "save"]
    /\ UNCHANGED <<files, mapping_id, data, clock, detectVars, rewriteVars, labelVars, fileVars>>

\* save() with no mapping loaded raises ValueError before touching anything.
StoreSaveRaises ==
    /\ mapping_id = NoId
    /\ pc' = "save"
    /\ ret' = [NoRet EXCEPT !.call = "save", !.raised = "ValueError"]
    /\ UNCHANGED <<files, mapping_id, data, clock, detectVars, rewriteVars, labelVars, fileVars>>

StoreSave ==
    /\ mapping_id # NoId
    /\ LET r == save(files, mapping_id, data, clock)
       IN /\ r.now <= MaxClock
          /\ pc' = "save"
          /\ files' = r.files
          /\ data' = r.data
          /\ clock' = r.now
          /\ ret' = [NoRet EXCEPT !.call = "save"]
    /\ UNCHANGED <<mapping_id, detectVars, rewriteVars, labelVars, fileVars>>

StoreNext ==
    \/ StoreNew
    \/ \E id \in MappingIds : StoreCreateOrLoad(id)
    \/ \E n \in StoreNames, t \in EntityTypes : StoreGetPseudonym(n, t)
    \/ StoreSaveRaises
    \/ StoreSave

SpecStore == StoreInit /\ [][StoreNext]_vars

-----------------------------------------------------------------------------
(* SpecLabel: _next_letter_label applied to one index *)

\* Largest index labelled (702 is the first three-letter label).
MaxIndex == 702

LabelInit ==
    /\ pc = "start"
    /\ index \in 0..MaxIndex
    /\ label = <<>>
    /\ StoreIdle /\ DetectIdle /\ RewriteIdle /\ FileIdle

LabelCall ==
    /\ pc = "start"
    /\ pc' = "_next_letter_label"
    /\ label' = next_letter_label(index)
    /\ UNCHANGED <<index, storeVars, detectVars, rewriteVars, fileVars>>

LabelNext == LabelCall

SpecLabel == LabelInit /\ [][LabelNext]_vars

-----------------------------------------------------------------------------
(* SpecDetect: detect_entities on one text, and _deduplicate called directly *)

\* Texts: every string over DetectAlphabet up to MaxTextLen characters, and
\* the texts of EmailTexts, in which the patterns match.
MaxTextLen == 4
DetectAlphabet == {"a", "B", " "}
NewlineTexts ==
    {<<"a", "\n", "B", "a">>, <<"a", "B", "\n", "a">>, <<"\n", "a", "B", "a">>}
EmailTexts ==
    {<<"a", "@", "B", ".", "a", "a">>,
     <<"B", " ", "a", "@", "B", ".", "a", "a">>,
     <<"@", "B", "a", ".", "a", "a">>,
     <<"a", "@", " ", "B", ".", "a", "a">>,
     <<"a", "@", "\t", "B", ".", "a", "a">>,
     <<"1", "1", "1", "1", "1", "1", "1", "1", "1", "1">>}
MinConfidences == {65, 95}

Texts == SeqsUpTo(DetectAlphabet, MaxTextLen) \cup NewlineTexts \cup EmailTexts

\* The lists the tests hand to _deduplicate directly (text defaults to "").
MaxDirect == 3
DirectText == <<"B", "a", "B">>
DirectEnts ==
    {DetectedEntity(Slice(DirectText, a, b), "PERSON", a, b, c, "spacy") :
        a \in 0..2, b \in 1..3, c \in {80, 90}}

DetectInit ==
    /\ pc = "start"
    /\ text \in Texts
    /\ min_confidence = 65
    /\ all_entities = <<>>
    /\ deduped = <<>>
    /\ entities = <<>>
    /\ StoreIdle /\ RewriteIdle /\ LabelIdle /\ FileIdle

DetectEntities(min_conf, regex_entities, ents) ==
    LET r == detect_entities(text, min_conf, regex_entities, ents)
    IN /\ pc = "start"
       /\ pc' = "detect_entities"
       /\ min_confidence' = min_conf
       /\ all_entities' = r.all_entities
       /\ deduped' = r.deduped
       /\ entities' = r.entities
       /\ UNCHANGED <<text, storeVars, rewriteVars, labelVars, fileVars>>

\* What _nlp may raise: OSError when the en_core_web_sm model cannot be loaded,
\* ValueError when the pipeline rejects a chunk.
RecognizerErrors == {"OSError", "ValueError"}

\* detect_entities when the recognizer raises on chunk k: _detect_ner calls
\* _nlp outside any try, and detect_entities calls _detect_ner outside any
\* try, so the exception leaves detect_entities and nothing is returned.
DetectEntitiesRaises(min_conf, k, error) ==
    /\ pc = "start"
    /\ k \in 1..Len(split_into_chunks(text))
    /\ pc' = "raised"
    /\ min_confidence' = min_conf
    /\ ret' = [NoRet EXCEPT !.call = "detect_entities", !.raised = error]
    /\ UNCHANGED <<text, all_entities, deduped, entities, files, mapping_id, data,
                   clock, rewriteVars, labelVars, fileVars>>

Deduplicate(ents) ==
    /\ pc = "start"
    /\ text = <<>>
    /\ pc' = "_deduplicate"
    /\ all_entities' = ents
    /\ deduped' = deduplicate(ents, <<>>)
    /\ UNCHANGED <<text, min_confidence, entities, storeVars, rewriteVars, labelVars, fileVars>>

DirectLists == SeqsUpTo({e \in DirectEnts : e.start < e.end}, MaxDirect)

DetectNext ==
    \/ /\ pc = "start"
       /\ LET regex_entities == detect_regex(text)
          IN \E m \in MinConfidences, ents \in DocEnts(split_into_chunks(text)) :
                DetectEntities(m, regex_entities, ents)
    \/ /\ pc = "start"
       /\ \E m \in MinConfidences, k \in 1..MaxTextLen, error \in RecognizerErrors :
             DetectEntitiesRaises(m, k, error)
    \/ /\ pc = "start"
       /\ text = <<>>
       /\ \E ents \in DirectLists : Deduplicate(ents)

SpecDetect == DetectInit /\ [][DetectNext]_vars

-----------------------------------------------------------------------------
(* SpecAnon: anonymize_text on one text, then deanonymize_text on its result *)

MaxAnonLen == 3
AnonAlphabet == {"J", "B", " "}
AnonFixtures ==
    {<<"a", "@", "B", ".", "a", "a">>,
     <<"P", "e", "r", "s", "o", "n", "_", "A">>}
AnonTexts == SeqsUpTo(AnonAlphabet, MaxAnonLen) \cup AnonFixtures

\* The directory and the clock at the start: nothing stored yet, or mapping
\* m1 as an earlier anonymize_text of a one-name text left it.
PriorNames == {<<"J">>, <<"B">>}
PriorStates ==
    {[files |-> NoFiles, now |-> 1]}
    \cup {LET prior == anonymize_text(NoFiles, n, "m1",
                           <<DetectedEntity(n, "PERSON", 0, Len(n),
                                            estimate_confidence(n), "spacy")>>, 1)
          IN [files |-> prior.files, now |-> prior.now] : n \in PriorNames}

AnonInit ==
    /\ pc = "start"
    /\ text \in AnonTexts
    /\ \E prior \in PriorStates : files = prior.files /\ clock = prior.now
    /\ mapping_id = NoId
    /\ data = EmptyData
    /\ ret = NoRet
    /\ min_confidence = DefaultMinConfidence
    /\ all_entities = <<>>
    /\ deduped = <<>>
    /\ entities = <<>>
    /\ RewriteIdle /\ LabelIdle /\ FileIdle

\* anonymize_text(text, id), detected being what detect_entities(text) returned.
AnonymizeText(id, detected) ==
    LET r == anonymize_text(files, text, id, detected.entities, clock)
    IN /\ pc = "start"
       /\ pc' = "anonymize_text"
       /\ mapping_id' = id
       /\ all_entities' = detected.all_entities
       /\ deduped' = detected.deduped
       /\ entities' = detected.entities
       /\ files' = r.files
       /\ anonymized_text' = r.anonymized_text
       /\ clock' = r.now
       /\ candidates' = detected.entities
       /\ UNCHANGED <<text, min_confidence, data, ret, restored, verifier, ops, labelVars, fileVars>>

\* The mutant of DeanonymizeText: the mapping it loaded is saved on the way out.
DeanonymizeText_saving(id) ==
    LET r == deanonymize_text(files, anonymized_text, id, clock)
        loaded == create_or_load(files, id, clock)
        saved == save(files, id, loaded.data, loaded.now)
    IN /\ pc = "anonymize_text"
       /\ pc' = "deanonymize_text"
       /\ mapping_id' = id
       /\ restored' = r.result
       /\ files' = saved.files
       /\ clock' = saved.now
       /\ ret' = [NoRet EXCEPT !.call = "deanonymize_text", !.value = r.result]
       /\ UNCHANGED <<text, anonymized_text, candidates, verifier, ops, data,
                      detectVars, labelVars, fileVars>>

\* deanonymize_text(anonymized_text, id)
DeanonymizeText(id) ==
    LET r == deanonymize_text(files, anonymized_text, id, clock)
    IN /\ pc = "anonymize_text"
       /\ pc' = "deanonymize_text"
       /\ mapping_id' = id
       /\ restored' = r.result
       /\ clock' = r.now
       /\ ret' = [NoRet EXCEPT !.call = "deanonymize_text", !.value = r.result]
       /\ UNCHANGED <<files, text, anonymized_text, candidates, verifier, ops, data,
                      detectVars, labelVars, fileVars>>

AnonNext ==
    \/ /\ pc = "start"
       /\ LET regex_entities == detect_regex(text)
          IN \E id \in MappingIds, ents \in DocEnts(split_into_chunks(text)) :
                AnonymizeText(id, detect_entities(text, DefaultMinConfidence,
                                                  regex_entities, ents))
    \/ /\ pc = "anonymize_text"
       /\ \E id \in MappingIds : DeanonymizeText(id)

SpecAnon == AnonInit /\ [][AnonNext]_vars

-----------------------------------------------------------------------------
(* SpecVerify: anonymize_text with use_ollama=True, every verifier behaviour *)

MaxVerifyLen == 2
MaxItems == 2
VerifyAlphabet == {"J", "B"}
VerifyTexts == SeqsUpTo(VerifyAlphabet, MaxVerifyLen)

\* The replies json.loads can make something of, for candidates of texts N.
Items(N) ==
    {Scalar} \cup {Object(t, v) : t \in {NoText, Unhashable} \cup {Str(n) : n \in N},
                                  v \in {"missing", "true", "false"}}
Replies(N) ==
    {[kind |-> k, items |-> <<>>] : k \in {"undecodable", "null", "number"}}
    \cup {[kind |-> k, items |-> i] : k \in {"string", "object"}, i \in {<<>>, <<Scalar>>}}
    \cup {[kind |-> "array", items |-> i] : i \in SeqsUpTo(Items(N), MaxItems)}

NoReply == [kind |-> "", items |-> <<>>]

\* The behaviours of the verifier: the probe fails, the post fails, or a reply.
VerifierBehaviours(N) ==
    {[probe |-> p, post |-> "", reply |-> NoReply] :
        p \in {"503", "ConnectError", "TimeoutException", "OSError"}}
    \cup {[probe |-> "200", post |-> q, reply |-> NoReply] :
        q \in {"ConnectError", "TimeoutException", "HTTPStatusError", "ValueError"}}
    \cup {[probe |-> "200", post |-> "ok", reply |-> r] : r \in Replies(N)}

VerifyInit ==
    /\ pc = "start"
    /\ text \in VerifyTexts
    /\ files = NoFiles
    /\ clock = 1
    /\ mapping_id = NoId
    /\ data = EmptyData
    /\ ret = NoRet
    /\ min_confidence = DefaultMinConfidence
    /\ all_entities = <<>>
    /\ deduped = <<>>
    /\ entities = <<>>
    /\ RewriteIdle /\ LabelIdle /\ FileIdle

\* anonymize_text(text, id, use_ollama=True), detected being what
\* detect_entities(text) returned and b how the verifier behaves.
AnonymizeVerified(id, detected, b) ==
    LET v == verify_step(b, detected.entities)
        r == anonymize_text(files, text, id, v.entities, clock)
    IN /\ pc = "start"
       /\ pc' = "anonymize_text"
       /\ mapping_id' = id
       /\ verifier' = b
       /\ candidates' = detected.entities
       /\ all_entities' = detected.all_entities
       /\ deduped' = detected.deduped
       /\ IF v.raised # ""
          THEN /\ ret' = [NoRet EXCEPT !.call = "anonymize_text", !.raised = v.raised]
               /\ UNCHANGED <<entities, files, anonymized_text, clock>>
          ELSE /\ ret' = [NoRet EXCEPT !.call = "anonymize_text"]
               /\ entities' = v.entities
               /\ files' = r.files
               /\ anonymized_text' = r.anonymized_text
               /\ clock' = r.now
       /\ UNCHANGED <<text, min_confidence, data, restored, ops, labelVars, fileVars>>

VerifyNext ==
    /\ pc = "start"
    /\ LET regex_entities == detect_regex(text)
       IN \E ents \in DocEnts(split_into_chunks(text)) :
             LET detected == detect_entities(text, DefaultMinConfidence, regex_entities, ents)
             IN \E b \in VerifierBehaviours({detected.entities[k].text :
                                                k \in 1..Len(detected.entities)}) :
                   AnonymizeVerified("m1", detected, b)

SpecVerify == VerifyInit /\ [][VerifyNext]_vars

-----------------------------------------------------------------------------
(* SpecOps: two anonymize_text operations, one MappingStore each, side by side *)

\* An operation is at "start", then "replaced" (steps 1 to 4 done on its own
\* MappingStore: the mapping loaded, the names replaced in memory), then
\* "saved" (step 5).  loaded and saved are the clock at its create_or_load and
\* at its save.
OpTexts == {<<"J">>, <<"B">>, <<"J", " ", "B">>}
Operations == {1, 2}
NoStamp == 0

NewOp(s, id) ==
    [pc |-> "start", text |-> s, mapping_id |-> id, entities |-> <<>>, data |-> EmptyData,
     anonymized_text |-> <<>>, loaded |-> NoStamp, saved |-> NoStamp]

OpsInit ==
    /\ pc = "start"
    /\ \E s1 \in OpTexts, s2 \in OpTexts, id \in MappingIds :
          ops = <<NewOp(s1, "m1"), NewOp(s2, id)>>
    /\ \E prior \in PriorStates : files = prior.files /\ clock = prior.now
    /\ mapping_id = NoId
    /\ data = EmptyData
    /\ ret = NoRet
    /\ DetectIdle /\ LabelIdle /\ FileIdle
    /\ anonymized_text = <<>>
    /\ restored = <<>>
    /\ candidates = <<>>
    /\ verifier = NoVerifier

\* Steps 1 to 4 of anonymize_text in operation o: detect_entities returned
\* detected, store.create_or_load reads the directory, the loop and the second
\* pass work on the operation's own _data.
OpReplace(o, detected) ==
    LET op == ops[o]
        loaded == create_or_load(files, op.mapping_id, clock)
        sub == SubstituteLoop(RightToLeft(detected), 1, loaded.data, op.text, loaded.now)
        result_text == ReplaceEach(SecondPass(get_entries(sub.data)), 1, sub.result_text)
    IN /\ op.pc = "start"
       /\ ops' = [ops EXCEPT ![o] = [op EXCEPT !.pc = "replaced", !.entities = detected,
                                               !.data = sub.data,
                                               !.anonymized_text = result_text,
                                               !.loaded = clock]]
       /\ clock' = sub.now
       /\ UNCHANGED <<pc, files, mapping_id, data, ret, detectVars, anonymized_text,
                      restored, candidates, verifier, labelVars, fileVars>>

\* Step 5 of anonymize_text in operation o: store.save().
OpSave(o) ==
    LET op == ops[o]
        saved == save(files, op.mapping_id, op.data, clock)
    IN /\ op.pc = "replaced"
       /\ ops' = [ops EXCEPT ![o] = [op EXCEPT !.pc = "saved", !.data = saved.data,
                                               !.saved = clock]]
       /\ files' = saved.files
       /\ clock' = saved.now
       /\ UNCHANGED <<pc, mapping_id, data, ret, detectVars, anonymized_text,
                      restored, candidates, verifier, labelVars, fileVars>>

OpsNext ==
    \/ \E o \in Operations :
          /\ ops[o].pc = "start"
          /\ LET regex_entities == detect_regex(ops[o].text)
             IN \E ents \in DocEnts(split_into_chunks(ops[o].text)) :
                   OpReplace(o, detect_entities(ops[o].text, DefaultMinConfidence,
                                                regex_entities, ents).entities)
    \/ \E o \in Operations : OpSave(o)

SpecOps == OpsInit /\ [][OpsNext]_vars

-----------------------------------------------------------------------------
(* SpecBulk: anonymize_folder on one folder, after section 4.5 of the         *)
(* specification (the function is imported by web.py and exercised by         *)
(* tests/test_bulk_anonymize.py)                                              *)

MaxFiles == 3
MaxCreated == 3

SupportedNames == {"a.txt", "b.md", "c.txt"}
OtherNames == {"d.csv"}
BulkTexts == {<<"J">>, <<"B">>}

\* A file of the folder: its name, its creation time, whether its bytes
\* decode as text, and the text.
FolderFiles ==
    {[name |-> n, created |-> c, ok |-> TRUE, text |-> t] :
        n \in SupportedNames, c \in 1..MaxCreated, t \in BulkTexts}
    \cup {[name |-> n, created |-> c, ok |-> FALSE, text |-> <<>>] :
        n \in SupportedNames, c \in 1..MaxCreated}
    \cup {[name |-> n, created |-> 1, ok |-> FALSE, text |-> <<>>] : n \in OtherNames}

\* What enumerating the folder may yield: the files in any order.
Listings ==
    {l \in SeqsUpTo(FolderFiles, MaxFiles) :
        \A i \in 1..Len(l), j \in 1..Len(l) : i # j => l[i].name # l[j].name}

BulkInit ==
    /\ pc = "start"
    /\ \/ \E l \in Listings : bulk = [NoBulk EXCEPT !.pc = "start", !.kind = "dir", !.listing = l]
       \/ \E k \in {"missing", "file"} : bulk = [NoBulk EXCEPT !.pc = "start", !.kind = k]
    /\ disk = NoDisk
    /\ StoreIdle /\ DetectIdle /\ RewriteIdle /\ LabelIdle

\* Step 3: the candidates by creation time ascending, ties in enumeration order.
\* by_enumeration is its mutant: the order of the enumeration is kept.
by_enumeration(candidates_) == candidates_

by_creation_time(candidates_) ==
    Sorted(candidates_, [k \in 1..Len(candidates_) |-> <<candidates_[k].created>>])

\* Steps 1 to 3, and the shared mapping loaded once.
BulkStart(id) ==
    LET supported == SelectSeq2(bulk.listing, {k \in 1..Len(bulk.listing) :
                                                  bulk.listing[k].name \in SupportedNames})
        loaded == create_or_load(files, id, clock)
        raised == IF bulk.kind = "missing" THEN "FileNotFoundError"
                  ELSE IF bulk.kind # "dir" THEN "ValueError"
                  ELSE IF supported = <<>> THEN "ValueError"
                  ELSE ""
    IN /\ bulk.pc = "start"
       /\ pc' = "anonymize_folder"
       /\ IF raised # ""
          THEN /\ bulk' = [bulk EXCEPT !.pc = "raised", !.raised = raised]
               /\ ret' = [NoRet EXCEPT !.call = "anonymize_folder", !.raised = raised]
               /\ UNCHANGED <<mapping_id, data, clock>>
          ELSE /\ bulk' = [bulk EXCEPT !.pc = "files", !.sorted = by_creation_time(supported),
                                       !.next = 1]
               /\ mapping_id' = id
               /\ data' = loaded.data
               /\ clock' = loaded.now
               /\ UNCHANGED ret
       /\ UNCHANGED <<files, disk, detectVars, rewriteVars, labelVars>>

\* What the detector returns for a file's text: the text is one PERSON span.
bulk_entities(s) ==
    <<DetectedEntity(s, "PERSON", 0, Len(s), estimate_confidence(s), "spacy")>>

\* The mutant of BulkFile: a file that cannot be decoded ends the run.
BulkFile_aborting ==
    LET f == bulk.sorted[bulk.next]
        detected == bulk_entities(f.text)
        sub == SubstituteLoop(RightToLeft(detected), 1, data, f.text, clock)
        result_text == ReplaceEach(SecondPass(get_entries(sub.data)), 1, sub.result_text)
    IN /\ bulk.pc = "files"
       /\ bulk.next <= Len(bulk.sorted)
       /\ pc' = "anonymize_folder"
       /\ IF f.ok
          THEN /\ bulk' = [bulk EXCEPT
                              !.next = @ + 1,
                              !.sections = Append(@, [name |-> f.name, created |-> f.created,
                                                      content |-> result_text]),
                              !.files_processed = @ + 1,
                              !.total_entities = @ + Len(detected)]
               /\ data' = sub.data
               /\ clock' = sub.now
               /\ UNCHANGED ret
          ELSE /\ bulk' = [bulk EXCEPT !.pc = "raised", !.raised = "UnicodeDecodeError"]
               /\ ret' = [NoRet EXCEPT !.call = "anonymize_folder",
                                       !.raised = "UnicodeDecodeError"]
               /\ UNCHANGED <<data, clock>>
       /\ UNCHANGED <<files, mapping_id, disk, detectVars, rewriteVars, labelVars>>

\* Step 4 for the next file: a section on success, an entry of failed_files
\* when the file cannot be read as text.
BulkFile ==
    LET f == bulk.sorted[bulk.next]
        detected == bulk_entities(f.text)
        sub == SubstituteLoop(RightToLeft(detected), 1, data, f.text, clock)
        result_text == ReplaceEach(SecondPass(get_entries(sub.data)), 1, sub.result_text)
    IN /\ bulk.pc = "files"
       /\ bulk.next <= Len(bulk.sorted)
       /\ pc' = "anonymize_folder"
       /\ IF f.ok
          THEN /\ bulk' = [bulk EXCEPT
                              !.next = @ + 1,
                              !.sections = Append(@, [name |-> f.name, created |-> f.created,
                                                      content |-> result_text]),
                              !.files_processed = @ + 1,
                              !.total_entities = @ + Len(detected)]
               /\ data' = sub.data
               /\ clock' = sub.now
          ELSE /\ bulk' = [bulk EXCEPT
                              !.next = @ + 1,
                              !.failed_files = Append(@, <<f.name, "UnicodeDecodeError">>),
                              !.files_failed = @ + 1]
               /\ UNCHANGED <<data, clock>>
       /\ UNCHANGED <<files, mapping_id, ret, disk, detectVars, rewriteVars, labelVars>>

\* Steps 5 and 6: the shared mapping persisted, the merged output written,
\* the summary returned.
BulkFinish ==
    LET saved == save(files, mapping_id, data, clock)
    IN /\ bulk.pc = "files"
       /\ bulk.next > Len(bulk.sorted)
       /\ pc' = "anonymize_folder"
       /\ bulk' = [bulk EXCEPT !.pc = "done"]
       /\ files' = saved.files
       /\ data' = saved.data
       /\ clock' = saved.now
       /\ ret' = [NoRet EXCEPT !.call = "anonymize_folder"]
       /\ UNCHANGED <<mapping_id, disk, detectVars, rewriteVars, labelVars>>

BulkNext ==
    \/ \E id \in MappingIds : BulkStart(id)
    \/ BulkFile
    \/ BulkFinish

SpecBulk == BulkInit /\ [][BulkNext]_vars

-----------------------------------------------------------------------------
(* SpecFile: one call of anonymize_file on a small directory *)

SUPPORTED_EXTENSIONS == {".txt", ".md"}

\* Path(p).suffix of the paths of the model.
Suffix(p) == IF p = "in.csv" THEN ".csv" ELSE ".txt"

\* output_path=None
NoOutput == ""

InputPaths == {"in.txt", "in.csv", "gone.txt"}
OutputPaths == {NoOutput, "in.txt", "out.txt"}

\* _default_output_dir() / f"{input_path.stem}.anon{input_path.suffix}"
default_output(input_path) == "output/in.anon.txt"

Exists(p) == disk[p] # <<>>

\* The texts in.txt may hold.
FileTexts == {t \in AnonTexts : Len(t) <= 2} \cup OpTexts

\* in.txt and in.csv exist, gone.txt does not; out.txt may hold an older output.
FileInit ==
    /\ pc = "start"
    /\ \E t \in FileTexts, old \in {<<>>, <<<<"J">>>>} :
          disk = [NoDisk EXCEPT !["in.txt"] = <<t>>, !["in.csv"] = <<t>>,
                                !["out.txt"] = old]
    /\ bulk = NoBulk
    /\ \E prior \in PriorStates : files = prior.files /\ clock = prior.now
    /\ mapping_id = NoId
    /\ data = EmptyData
    /\ ret = NoRet
    /\ DetectIdle /\ RewriteIdle /\ LabelIdle

\* anonymize_file(input_path, ...) raising before anything is read.
AnonymizeFileRaises(input_path) ==
    /\ pc = "start"
    /\ ~Exists(input_path) \/ Suffix(input_path) \notin SUPPORTED_EXTENSIONS
    /\ pc' = "anonymize_file"
    /\ ret' = [NoRet EXCEPT !.call = "anonymize_file", !.real_name = input_path,
                            !.raised = IF ~Exists(input_path) THEN "FileNotFoundError"
                                       ELSE "ValueError"]
    /\ UNCHANGED <<files, mapping_id, data, clock, detectVars, rewriteVars, labelVars,
                   fileVars>>

\* anonymize_file(input_path, output_path, id), detected being what
\* detect_entities returned for the text read.
AnonymizeFile(input_path, output_path, id, detected) ==
    LET read == disk[input_path][1]
        out == IF output_path = NoOutput THEN default_output(input_path) ELSE output_path
        r == anonymize_text(files, read, id, detected, clock)
    IN /\ pc = "start"
       /\ Exists(input_path)
       /\ Suffix(input_path) \in SUPPORTED_EXTENSIONS
       /\ pc' = "anonymize_file"
       /\ text' = read
       /\ entities' = detected
       /\ mapping_id' = id
       /\ files' = r.files
       /\ clock' = r.now
       /\ anonymized_text' = r.anonymized_text
       /\ disk' = [disk EXCEPT ![out] = <<r.anonymized_text>>]
       /\ ret' = [NoRet EXCEPT !.call = "anonymize_file", !.real_name = input_path,
                               !.value = out]
       /\ UNCHANGED <<data, min_confidence, all_entities, deduped, restored, candidates,
                      verifier, ops, labelVars, bulk>>

FileNext ==
    \/ \E input_path \in InputPaths : AnonymizeFileRaises(input_path)
    \/ /\ pc = "start"
       /\ \E input_path \in {p \in InputPaths :
                               Exists(p) /\ Suffix(p) \in SUPPORTED_EXTENSIONS} :
             LET read == disk[input_path][1]
                 regex_entities == detect_regex(read)
             IN \E output_path \in OutputPaths, id \in MappingIds,
                   ents \in DocEnts(split_into_chunks(read)) :
                   AnonymizeFile(input_path, output_path, id,
                                 detect_entities(read, DefaultMinConfidence,
                                                 regex_entities, ents).entities)

SpecFile == FileInit /\ [][FileNext]_vars

-----------------------------------------------------------------------------
(* SpecRestore: deanonymize_text under a mapping whose pseudonyms include one *)
(* that is a prefix of another (Person_A / Person_AA, Company_1 / Company_10) *)

MaxShape == 3

\* The names registered, in order: N1, N2, ...
RegisteredName(k) == <<"N">> \o Decimal(k)

\* The mapping after get_pseudonym was called for the names k..n in turn, all
\* of one type, starting from the dict d at time now.
RECURSIVE Registered(_, _, _, _, _)
Registered(entity_type, k, n, d, now) ==
    IF k > n THEN [data |-> d, now |-> now]
    ELSE LET got == get_pseudonym(d, RegisteredName(k), entity_type, now)
         IN IF got.data = d
            THEN Registered(entity_type, k + 1, n, d, now)
            ELSE Registered(entity_type, k + 1, n, got.data, got.now)

\* How many names of a type are registered: one, just short of the first
\* two-character label, just enough for it, and one more.
RegisteredCounts(entity_type) ==
    IF entity_type = "PERSON" THEN {1, 26, 27, 28} ELSE {1, 9, 10, 11}

\* The first pseudonym of a type and the first one that it is a prefix of.
ShortPseudonym(entity_type) == generate_pseudonym(entity_type, 0)
LongPseudonym(entity_type) ==
    generate_pseudonym(entity_type, IF entity_type = "PERSON" THEN 26 ELSE 9)

\* A text is a row of parts: the long pseudonym, the short one, a blank.
Shapes == SeqsUpTo({"long", "short", "blank"}, MaxShape) \ {<<>>}

RECURSIVE Render(_, _, _)
Render(shape, long, short) ==
    IF shape = <<>> THEN <<>>
    ELSE (CASE shape[1] = "long" -> long
            [] shape[1] = "short" -> short
            [] OTHER -> <<" ">>) \o Render(Tail(shape), long, short)

RestoreInit ==
    /\ pc = "start"
    /\ \E entity_type \in {"PERSON", "ORG"} :
          /\ \E n \in RegisteredCounts(entity_type) :
                LET loaded == create_or_load(NoFiles, "m1", 1)
                    reg == Registered(entity_type, 1, n, loaded.data, loaded.now)
                    saved == save(NoFiles, "m1", reg.data, reg.now)
                IN files = saved.files /\ clock = saved.now
          /\ \E shape \in Shapes :
                anonymized_text = Render(shape, LongPseudonym(entity_type),
                                         ShortPseudonym(entity_type))
    /\ mapping_id = NoId
    /\ data = EmptyData
    /\ ret = NoRet
    /\ restored = <<>>
    /\ candidates = <<>>
    /\ verifier = NoVerifier
    /\ ops = <<>>
    /\ DetectIdle /\ LabelIdle /\ FileIdle

\* deanonymize_text(anonymized_text, id) on a text that was handed in.
RestoreText(id) ==
    LET r == deanonymize_text(files, anonymized_text, id, clock)
    IN /\ pc = "start"
       /\ pc' = "deanonymize_text"
       /\ mapping_id' = id
       /\ restored' = r.result
       /\ clock' = r.now
       /\ ret' = [NoRet EXCEPT !.call = "deanonymize_text", !.value = r.result]
       /\ UNCHANGED <<files, data, anonymized_text, candidates, verifier, ops,
                      detectVars, labelVars, fileVars>>

RestoreNext == \E id \in MappingIds : RestoreText(id)

SpecRestore == RestoreInit /\ [][RestoreNext]_vars

-----------------------------------------------------------------------------
(* Claims about MappingStore *)

Distinct(entries) ==
    \A j, k \in 1..Len(entries) :
        entries[j].name # entries[k].name => entries[j].pseudonym # entries[k].pseudonym

\* C2: after any sequence of get_pseudonym calls on one mapping, with any real
\* names and any entity types, no two distinct real names hold the same
\* pseudonym, so the reverse lookup has one key per entry.
C2_PseudonymsUnique ==
    mapping_id # NoId =>
        /\ Distinct(data.entries)
        /\ Len(get_reverse_lookup(data)) = Len(data.entries)

\* C4: a get_pseudonym call for a real name that already has an entry returns
\* the entry's pseudonym, whatever entity type is passed, and leaves the whole
\* dict (every entry and the updated timestamp) as it was; no get_pseudonym
\* call changes an entry that exists.
C4_IdempotentAllocation ==
    [][pc' = "get_pseudonym" =>
          /\ HasEntry(data.entries, ret'.real_name) =>
                /\ ret'.value = EntryOf(data.entries, ret'.real_name).pseudonym
                /\ data' = data
          /\ Len(data'.entries) >= Len(data.entries)
          /\ \A k \in 1..Len(data.entries) : data'.entries[k] = data.entries[k]]_vars

\* C4 witness: a call hit an entry recorded under another entity type, after
\* the entry was minted at an earlier time.
C4_Witness ==
    /\ pc = "get_pseudonym"
    /\ HasEntry(data.entries, ret.real_name)
    /\ EntryOf(data.entries, ret.real_name).type # ret.entity_type
    /\ ret.value = EntryOf(data.entries, ret.real_name).pseudonym
    /\ data.updated < clock - 1

\* The number of entries of type t among the first k.
RankIn(entries, k) ==
    Cardinality({j \in 1..k : entries[j].type = entries[k].type})

Person_A == <<"P", "e", "r", "s", "o", "n", "_", "A">>
Person_B == <<"P", "e", "r", "s", "o", "n", "_", "B">>
Company_1 == <<"C", "o", "m", "p", "a", "n", "y", "_", "1">>
Company_2 == <<"C", "o", "m", "p", "a", "n", "y", "_", "2">>
Email_1 == <<"E", "m", "a", "i", "l", "_", "1">>
Phone_1 == <<"P", "h", "o", "n", "e", "_", "1">>

ExpectedFirst(t) ==
    CASE t = "PERSON" -> Person_A
      [] t = "ORG" -> Company_1
      [] t = "EMAIL" -> Email_1
      [] t = "PHONE" -> Phone_1
      [] OTHER -> <<>>

Sequenced(entries) ==
    \A k \in 1..Len(entries) :
        LET t == entries[k].type
            n == RankIn(entries, k)
        IN t \in {"PERSON", "ORG", "EMAIL", "PHONE"} =>
              /\ entries[k].pseudonym = generate_pseudonym(t, n - 1)
              /\ n = 1 => entries[k].pseudonym = ExpectedFirst(t)
              /\ (n = 2 /\ t = "PERSON") => entries[k].pseudonym = Person_B
              /\ (n = 2 /\ t = "ORG") => entries[k].pseudonym = Company_2

\* C5: the n-th distinct real name resolved with type K holds generate(K, n-1)
\* (Person_A, Person_B, ...; Company_1, Company_2, ...; Email_1; Phone_1), and
\* a get_pseudonym call with another type leaves the count of K's entries,
\* the index K's next name gets, unchanged.
C5_PerKindSequencing ==
    [][pc' = "get_pseudonym" =>
          /\ Sequenced(data'.entries)
          /\ \A t \in EntityTypes :
                t # ret'.entity_type =>
                    existing_count(data'.entries, t) = existing_count(data.entries, t)]_vars

\* C5 witness: a second PERSON minted after an ORG came in between.
C5_Witness ==
    /\ pc = "get_pseudonym"
    /\ Len(data.entries) = 3
    /\ data.entries[1].type = "PERSON"
    /\ data.entries[2].type = "ORG"
    /\ data.entries[3].type = "PERSON"
    /\ data.entries[3].pseudonym = Person_B
    /\ ret.value = Person_B

-----------------------------------------------------------------------------
(* Claims about anonymize_text and deanonymize_text *)

\* s has sub as a substring.
Contains(s, sub) ==
    \E i \in 0..(Len(s) - Len(sub)) : SubSeq(s, i + 1, i + Len(sub)) = sub

\* No pseudonym, whatever its label or number, occurs in s.
NoPseudonymIn(s) ==
    \A prefix \in {PersonPrefix, CompanyPrefix, EmailPrefix, PhonePrefix, EntityPrefix} :
        ~Contains(s, prefix)

\* C1: a text in which no pseudonym occurs comes back unchanged from
\* deanonymize_text after anonymize_text under the same mapping, fresh or
\* already holding entries.
C1_RoundTrip ==
    [][(/\ pc = "anonymize_text"
        /\ pc' = "deanonymize_text"
        /\ mapping_id' = mapping_id
        /\ NoPseudonymIn(text)) => restored' = text]_vars

\* Exactly two spans were found, both PERSON, of different texts.
TwoPersons(ents) ==
    /\ Len(ents) = 2
    /\ \A k \in 1..2 : ents[k].entity_type = "PERSON"
    /\ ents[1].text # ents[2].text

PseudonymIn(fs, id, real_name) == EntryOf(get_entries(fs[id][1]), real_name).pseudonym

\* C3: under a fresh mapping, of two distinct PERSON spans the one that occurs
\* first in the text gets Person_A and the later one Person_B, and the text
\* returned has them in that order.
C3_FirstSpanPersonA ==
    [][(/\ pc = "start"
        /\ pc' = "anonymize_text"
        /\ files[mapping_id'] = <<>>
        /\ TwoPersons(entities'))
       => /\ PseudonymIn(files', mapping_id', entities'[1].text) = Person_A
          /\ PseudonymIn(files', mapping_id', entities'[2].text) = Person_B
          /\ anonymized_text' =
                Slice(text, 0, entities'[1].start) \o Person_A
                    \o Slice(text, entities'[1].end, entities'[2].start) \o Person_B
                    \o Slice(text, entities'[2].end, Len(text))]_vars

-----------------------------------------------------------------------------
(* Claims about _next_letter_label *)

\* The value of a label read as a bijective base-26 numeral (A = 1 .. Z = 26).
LetterValue(c) == CHOOSE v \in 1..26 : ascii_uppercase[v] = c

RECURSIVE NumeralValue(_)
NumeralValue(l) ==
    IF l = <<>> THEN 0
    ELSE 26 * NumeralValue(SubSeq(l, 1, Len(l) - 1)) + LetterValue(l[Len(l)])

LabelAnchors ==
    /\ index = 0 => label = <<"A">>
    /\ index = 25 => label = <<"Z">>
    /\ index = 26 => label = <<"A", "A">>
    /\ index = 27 => label = <<"A", "B">>
    /\ index = 51 => label = <<"A", "Z">>
    /\ index = 52 => label = <<"B", "A">>
    /\ index = 701 => label = <<"Z", "Z">>
    /\ index = 702 => label = <<"A", "A", "A">>

\* C6: _next_letter_label(index) is the bijective base-26 numeral of index + 1
\* over A..Z (0->A, 25->Z, 26->AA, 27->AB, 51->AZ, 52->BA, 701->ZZ, 702->AAA),
\* and no other index of the range has the same label.
C6_BijectiveBase26 ==
    pc = "_next_letter_label" =>
        /\ LabelAnchors
        /\ label # <<>>
        /\ Range(label) \subseteq Range(ascii_uppercase)
        /\ NumeralValue(label) = index + 1
        /\ \A j \in 0..MaxIndex : j # index => next_letter_label(j) # label

\* C6 witness: the first three-letter label has been computed.
C6_Witness ==
    /\ pc = "_next_letter_label"
    /\ index = 702
    /\ label = <<"A", "A", "A">>

-----------------------------------------------------------------------------
(* Claims about the detection pipeline *)

Detected == pc = "detect_entities"
Deduped == pc \in {"detect_entities", "_deduplicate"}

\* C7: the list detect_entities returns is ordered and disjoint: of two
\* consecutive spans the first starts no later than the second and ends no
\* later than the second starts.
C7_OrderedDisjoint ==
    Detected =>
        \A k \in 1..(Len(entities) - 1) :
            /\ entities[k].start <= entities[k + 1].start
            /\ entities[k].end <= entities[k + 1].start

\* C7 witness: two spans are returned although spans handed to _deduplicate
\* overlapped, one of them lying inside the other.
C7_Witness ==
    /\ Detected
    /\ Len(entities) >= 2
    /\ \E i, j \in 1..Len(all_entities) :
          /\ i # j
          /\ all_entities[i].start <= all_entities[j].start
          /\ all_entities[j].end <= all_entities[i].end
          /\ \E k \in 1..Len(entities) : entities[k] = all_entities[i]

\* The spans handed to _deduplicate that the e-mail test does not drop.
Live == {k \in 1..Len(all_entities) :
            ~(text # <<>> /\ is_inside_email(all_entities[k], text))}
Group(p) == {k \in Live : all_entities[k].start = p}
GroupAll(p) == {k \in 1..Len(all_entities) : all_entities[k].start = p}
Survivors(p) == {j \in 1..Len(deduped) : deduped[j].start = p}
LongestEnd(G) == Max({all_entities[k].end : k \in G})
BestConfidence(G) ==
    Max({all_entities[k].confidence : k \in {g \in G : all_entities[g].end = LongestEnd(G)}})
\* An accepted span that starts before p and reaches beyond it.
Covered(p) ==
    \E j \in 1..Len(deduped) : deduped[j].start < p /\ deduped[j].end > p

\* C8 as stated: of two or more input spans that share a start exactly one
\* survives, the longest, and of the longest the one of highest confidence.
C8_Original ==
    Deduped =>
        \A p \in {all_entities[k].start : k \in 1..Len(all_entities)} :
            Cardinality(GroupAll(p)) >= 2 =>
            /\ Cardinality(Survivors(p)) = 1
            /\ \A j \in Survivors(p) :
                  /\ deduped[j].end = LongestEnd(GroupAll(p))
                  /\ deduped[j].confidence = BestConfidence(GroupAll(p))

\* C8: of the input spans that share a start and pass the e-mail test at most
\* one survives; a survivor is the longest of them and, of the longest, one of
\* highest confidence; none survives exactly when an accepted span that starts
\* earlier reaches beyond that start.
C8_SameStartWinner ==
    Deduped =>
        \A p \in {all_entities[k].start : k \in Live} :
            /\ Cardinality(Survivors(p)) <= 1
            /\ (Survivors(p) = {}) <=> Covered(p)
            /\ \A j \in Survivors(p) :
                  /\ deduped[j].end = LongestEnd(Group(p))
                  /\ deduped[j].confidence = BestConfidence(Group(p))

\* C8 witness: _deduplicate was handed two spans of one start and different
\* lengths and a third of the same extent as the longer, and one survived.
C8_Witness ==
    /\ pc = "_deduplicate"
    /\ \E p \in 0..MaxDirect :
          /\ \E a, b, c \in GroupAll(p) :
                /\ all_entities[a].end < all_entities[b].end
                /\ all_entities[c].end = all_entities[b].end
                /\ all_entities[c].confidence < all_entities[b].confidence
          /\ Cardinality(Survivors(p)) = 1

\* C9: every span detect_entities returns lies in the text and carries the
\* text between its offsets: text[span.start:span.end] == span.text.
C9_OffsetsMatchText ==
    Detected =>
        \A k \in 1..Len(entities) :
            /\ 0 <= entities[k].start
            /\ entities[k].start < entities[k].end
            /\ entities[k].end <= Len(text)
            /\ Slice(text, entities[k].start, entities[k].end) = entities[k].text

\* C9 witness: a recognizer span of a chunk after the first is returned.
C9_Witness ==
    /\ Detected
    /\ Len(text) > MAX_CHUNK_SIZE
    /\ \E k \in 1..Len(entities) :
          /\ entities[k].source = "spacy"
          /\ entities[k].start >= MAX_CHUNK_SIZE

LowSingleWord ==
    DetectedEntity(<<"a">>, "PERSON", 0, 1, 60, "spacy")
LowTwoWords ==
    DetectedEntity(<<"a", " ", "B">>, "PERSON", 0, 3, 60, "spacy")

\* C10: detect_entities returns a de-duplicated span iff its confidence is at
\* least min_confidence or its text has more than one word, and returns
\* nothing else; at 0.65 the filter drops a one-word span of confidence 0.60
\* and keeps a two-word span of that confidence.
C10_ConfidenceFilter ==
    /\ ~Keeps(LowSingleWord, DefaultMinConfidence)
    /\ Keeps(LowTwoWords, DefaultMinConfidence)
    /\ Detected =>
          /\ \A k \in 1..Len(deduped) :
                (\E j \in 1..Len(entities) : entities[j] = deduped[k])
                    <=> \/ deduped[k].confidence >= min_confidence
                        \/ WordCount(deduped[k].text) > 1
          /\ \A j \in 1..Len(entities) :
                \E k \in 1..Len(deduped) : deduped[k] = entities[j]
          /\ Len(entities) <= Len(deduped)

\* C10 witness: at one threshold a one-word span below it was dropped and a
\* two-word span below it was returned.
C10_Witness ==
    /\ Detected
    /\ \E k \in 1..Len(deduped) :
          /\ deduped[k].confidence < min_confidence
          /\ WordCount(deduped[k].text) = 1
          /\ \A j \in 1..Len(entities) : entities[j] # deduped[k]
    /\ \E j \in 1..Len(entities) :
          /\ entities[j].confidence < min_confidence
          /\ WordCount(entities[j].text) = 2

\* (a) as the claim words it: an '@' in the 50 characters before the span with
\* no whitespace character of any kind between it and the span.
AtBeforeNoWhitespace(ent, s) ==
    LET search_start == IF ent.start - BeforeWindow > 0 THEN ent.start - BeforeWindow ELSE 0
        before == Slice(s, search_start, ent.start)
    IN \E i \in 1..Len(before) :
          /\ before[i] = "@"
          /\ \A j \in i..Len(before) : before[j] \notin WhiteSpace

\* (b): the span is followed at once by '.' and two or more letters.
TldAfter(ent, s) ==
    \E e \in MatchEnds(<<[cls |-> {"."}, lo |-> 1, hi |-> 1],
                         [cls |-> Letter, lo |-> 2, hi |-> -1]>>, 1,
                       Slice(s, ent.end, ent.end + AfterWindow), 0) :
        WordBoundary(Slice(s, ent.end, ent.end + AfterWindow), e)

\* C11: the e-mail test drops a span exactly when it is PERSON or ORG, (a) and
\* (b) hold; a span that is the only candidate is returned by _deduplicate
\* exactly when the test does not drop it.
C11_EmailSuppression ==
    Detected =>
        /\ \A k \in 1..Len(all_entities) :
              is_inside_email(all_entities[k], text)
                  <=> /\ all_entities[k].entity_type \in {"PERSON", "ORG"}
                      /\ AtBeforeNoWhitespace(all_entities[k], text)
                      /\ TldAfter(all_entities[k], text)
        /\ Len(all_entities) = 1 =>
              (deduped = <<>>
                  <=> /\ all_entities[1].entity_type \in {"PERSON", "ORG"}
                      /\ AtBeforeNoWhitespace(all_entities[1], text)
                      /\ TldAfter(all_entities[1], text))


-----------------------------------------------------------------------------
(* Claims about the verifier and about recognizer failure *)

Verified == pc = "anonymize_text" /\ verifier # NoVerifier

\* The reply the prompt asks for: an array of objects, each with a str "text".
WellFormed(reply) ==
    /\ reply.kind = "array"
    /\ \A k \in 1..Len(reply.items) :
          reply.items[k].kind = "object" /\ reply.items[k].text.kind = "str"

VerifierFailed(b) == b.probe # "200" \/ b.post # "ok" \/ ~WellFormed(b.reply)

\* C12: with use_ollama enabled, whatever the verifier does (unreachable,
\* timeout, HTTP error, any exception in the probe or the verify call, an
\* unparsable or malformed reply) anonymize_text completes, and on such a
\* failure it goes on with the span list it had before verification.
C12_VerifierNeverFatal ==
    Verified =>
        /\ ret.raised = ""
        /\ VerifierFailed(verifier) => entities = candidates


\* What detect_entities returns from the patterns alone.
PatternOnly(s, min_conf) == detect_entities(s, min_conf, detect_regex(s), <<>>).entities

\* C13: when the recognizer is unavailable or raises on a chunk,
\* detect_entities does not raise and returns the pattern-only result: the
\* EMAIL and PHONE spans, de-duplicated, filtered and sorted.
C13_RecognizerFailureNotFatal ==
    [][(\E m \in MinConfidences, k \in 1..MaxTextLen, error \in RecognizerErrors :
            DetectEntitiesRaises(m, k, error))
        => /\ ret'.raised = ""
           /\ entities' = PatternOnly(text, min_confidence')]_vars


-----------------------------------------------------------------------------
(* Claims about operations sharing a mapping id *)

Other(o) == 3 - o
BothSaved == ops # <<>> /\ \A o \in Operations : ops[o].pc = "saved"
SameId == ops[1].mapping_id = ops[2].mapping_id

\* Operation o loaded the mapping before the other one saved it.
LoadedBeforeSave(o) == ops[o].loaded <= ops[Other(o)].saved

LastSaver == IF ops[1].saved > ops[2].saved THEN 1 ELSE 2

\* The names operation o has an entry for and the other one has not.
OnlyIn(o) ==
    {ops[o].data.entries[k].name : k \in 1..Len(ops[o].data.entries)}
    \ {ops[Other(o)].data.entries[k].name : k \in 1..Len(ops[Other(o)].data.entries)}

\* C14: two anonymize operations on one mapping id that both load the mapping
\* before either saves leave, once both are done, exactly the in-memory mapping
\* of the one that saved last in the file; the entries only the other one
\* added are absent from it.
C14_LostUpdate ==
    (BothSaved /\ SameId /\ LoadedBeforeSave(1) /\ LoadedBeforeSave(2)) =>
        /\ files[ops[1].mapping_id] = <<ops[LastSaver].data>>
        /\ \A n \in OnlyIn(Other(LastSaver)) :
              ~HasEntry(files[ops[1].mapping_id][1].entries, n)

\* The two operations handed the same pseudonym to two different real names,
\* and the entry of the one that saved first is lost.
C14_Witness ==
    /\ BothSaved /\ SameId /\ LoadedBeforeSave(1) /\ LoadedBeforeSave(2)
    /\ OnlyIn(Other(LastSaver)) # {}
    /\ \E j \in 1..Len(ops[1].data.entries), k \in 1..Len(ops[2].data.entries) :
          /\ ops[1].data.entries[j].name # ops[2].data.entries[k].name
          /\ ops[1].data.entries[j].pseudonym = ops[2].data.entries[k].pseudonym


\* Operation a had saved before operation b loaded.
OneAfterAnother(a, b) == ops[a].saved < ops[b].loaded

DetectedNames(o) == {ops[o].entities[k].text : k \in 1..Len(ops[o].entities)}

EntriesFor(entries, n) == {k \in 1..Len(entries) : entries[k].name = n}

\* C15: when two documents are anonymized one after the other under one
\* mapping id, a real name detected in both is replaced by the same pseudonym
\* in both outputs, and the mapping holds exactly one entry for it.
C15_SharedIdentity ==
    (BothSaved /\ SameId /\ (OneAfterAnother(1, 2) \/ OneAfterAnother(2, 1))) =>
        \A n \in DetectedNames(1) \cap DetectedNames(2) :
            LET stored == files[ops[1].mapping_id][1].entries
            IN /\ Cardinality(EntriesFor(stored, n)) = 1
               /\ \A o \in Operations :
                     /\ HasEntry(ops[o].data.entries, n)
                     /\ EntryOf(ops[o].data.entries, n).pseudonym = EntryOf(stored, n).pseudonym
                     /\ Contains(ops[o].anonymized_text, EntryOf(stored, n).pseudonym)


-----------------------------------------------------------------------------
(* Claims about deanonymize_text and the persisted mappings *)

Restored == pc = "deanonymize_text"

\* deanonymize_text leaves the directory alone, so what it found under its id
\* is what is there afterwards.
MissingMapping == files[mapping_id] = <<>>

\* C16: deanonymize_text called with a mapping id under which nothing is
\* persisted fails with FileNotFoundError instead of returning a result.
C16_MissingMappingRaises ==
    (Restored /\ MissingMapping) => ret.raised = "FileNotFoundError"


\* The mapping create_or_load finds under id has no entries: nothing is
\* persisted under id, or what is persisted has none.
NoEntries(fs, id) == fs[id] = <<>> \/ get_entries(fs[id][1]) = <<>>

Kept(d) == [mapping_id |-> d.mapping_id, created |-> d.created, entries |-> d.entries]

\* C18: create_or_load(id) gives a fresh empty mapping with created = updated
\* when nothing is persisted under id; save writes the id, the creation time
\* and the entries that are in memory, nothing but save changes a file, and
\* create_or_load(id) on a persisted id gives back that id, that creation time
\* and exactly those entries.
C18_PersistLoadRoundTrip ==
    [][/\ (pc' = "create_or_load" /\ files[mapping_id'] = <<>>) =>
              /\ data'.mapping_id = mapping_id'
              /\ data'.entries = <<>>
              /\ data'.created = data'.updated
       /\ (pc' = "save" /\ ret'.raised = "") =>
              /\ files'[mapping_id] # <<>>
              /\ Kept(files'[mapping_id][1]) = Kept(data)
              /\ data.mapping_id = mapping_id
              /\ \A id \in MappingIds \ {mapping_id} : files'[id] = files[id]
       /\ ~(pc' = "save" /\ ret'.raised = "") => files' = files
       /\ (pc' = "create_or_load" /\ files[mapping_id'] # <<>>) =>
              /\ Kept(data') = Kept(files[mapping_id'][1])
              /\ data'.mapping_id = mapping_id']_vars

\* A new MappingStore loaded a mapping that was saved with an entry in it,
\* some time after the mapping was created.
C18_Witness ==
    /\ pc = "create_or_load"
    /\ files[mapping_id] # <<>>
    /\ Kept(data) = Kept(files[mapping_id][1])
    /\ data.entries # <<>>
    /\ data.created # data.updated


\* C19: save() on a MappingStore on which create_or_load has not been called
\* raises ValueError and writes nothing: the persisted mappings are unchanged.
C19_SaveWithoutLoad ==
    [][(pc' = "save" /\ mapping_id = NoId) =>
          /\ ret'.raised = "ValueError"
          /\ files' = files]_vars

\* save() raised on a new MappingStore while a mapping saved through an
\* earlier one is in the directory.
C19_Witness ==
    /\ pc = "save"
    /\ mapping_id = NoId
    /\ ret.raised = "ValueError"
    /\ \E id \in MappingIds : files[id] # <<>>


-----------------------------------------------------------------------------
(* Claims about what anonymize_text leaves in the text *)

Anonymized == pc = "anonymize_text" /\ verifier = NoVerifier /\ ops = <<>>

\* C20: after anonymize_text returns, no real name that is a key of the
\* mapping (the text of every span detected in this call and every name
\* recorded earlier under the id) occurs verbatim in the anonymized text.
C20_NoRealNameSurvives ==
    Anonymized =>
        \A k \in 1..Len(get_entries(files[mapping_id][1])) :
            ~Contains(anonymized_text, get_entries(files[mapping_id][1])[k].name)


-----------------------------------------------------------------------------
(* Claims about the second pass and about running again *)

\* The 0-based positions at which sub occurs in s.
Occurrences(s, sub) ==
    {i \in 0..(Len(s) - Len(sub)) : SubSeq(s, i + 1, i + Len(sub)) = sub}

\* Name n occurs in the text of operation o at a place that no span detected
\* in o touches and that no longer name of o's mapping covers.
FreeOccurrence(o, n) ==
    \E i \in Occurrences(ops[o].text, n) :
        /\ \A k \in 1..Len(ops[o].entities) :
              ~(i < ops[o].entities[k].end /\ i + Len(n) > ops[o].entities[k].start)
        /\ \A k \in 1..Len(ops[o].data.entries) :
              LET m == ops[o].data.entries[k].name
              IN Len(m) > Len(n) =>
                    \A j \in Occurrences(ops[o].text, m) :
                        ~(i < j + Len(m) /\ i + Len(n) > j)

\* C21: a real name recorded by an earlier operation under the mapping id is
\* replaced by its pseudonym where it occurs verbatim in the text of a later
\* anonymize_text call, detected there or not; the longer name goes first, so
\* a name is rendered by its own pseudonym and not by that of a shorter name
\* inside it.
C21_SecondPassWholeMapping ==
    \A a \in Operations :
        (BothSaved /\ SameId /\ OneAfterAnother(a, Other(a))) =>
            \A k \in 1..Len(ops[a].data.entries) :
                FreeOccurrence(Other(a), ops[a].data.entries[k].name) =>
                    Contains(ops[Other(a)].anonymized_text, ops[a].data.entries[k].pseudonym)


\* Operation b ran again what operation a had run: the same text under the
\* same id, the detector returning what it returned the first time, and
\* nothing in between.
RanAgain(a, b) ==
    /\ BothSaved /\ SameId /\ OneAfterAnother(a, b)
    /\ ops[b].text = ops[a].text
    /\ ops[b].entities = ops[a].entities

\* C22: running anonymize_text a second time on the same text under the same
\* mapping id returns the text the first run returned and leaves the entries
\* of the mapping as they were: none added, removed or changed.
C22_RerunIsSafe ==
    \A a \in Operations :
        RanAgain(a, Other(a)) =>
            /\ ops[Other(a)].anonymized_text = ops[a].anonymized_text
            /\ get_entries(ops[Other(a)].data) = get_entries(ops[a].data)
            /\ get_entries(files[ops[a].mapping_id][1]) = get_entries(ops[a].data)

\* The first run added two names to a mapping that held one, the second run
\* found all three.
C22_Witness ==
    /\ RanAgain(1, 2)
    /\ Len(ops[1].entities) = 2
    /\ Len(get_entries(ops[2].data)) = 3
    /\ ops[2].anonymized_text = ops[1].anonymized_text


-----------------------------------------------------------------------------
(* Claims about anonymize_folder and anonymize_file *)

BulkDone == bulk.pc = "done"

\* The supported files of the folder, in the order of the enumeration.
SupportedFiles ==
    SelectSeq2(bulk.listing, {k \in 1..Len(bulk.listing) :
                                 bulk.listing[k].name \in SupportedNames})

\* C23: whatever the folder and the order in which it is enumerated, the
\* sections of the merged output are in ascending file-creation-time order;
\* three files created at t1 < t2 < t3 appear in the order t1, t2, t3.
C23_BulkOrdering ==
    /\ \A i \in 1..Len(bulk.sections), j \in 1..Len(bulk.sections) :
          i < j => bulk.sections[i].created <= bulk.sections[j].created
    /\ (/\ BulkDone
        /\ Len(SupportedFiles) = 3
        /\ \A k \in 1..3 : SupportedFiles[k].ok
        /\ {SupportedFiles[k].created : k \in 1..3} = 1..3) =>
           /\ Len(bulk.sections) = 3
           /\ \A k \in 1..3 :
                 \E f \in Range(SupportedFiles) :
                    /\ f.created = k
                    /\ bulk.sections[k].name = f.name
                    /\ bulk.sections[k].created = k

\* Three decodable files were enumerated newest first and merged oldest first.
C23_Witness ==
    /\ BulkDone
    /\ Len(bulk.listing) = 3
    /\ \A k \in 1..3 : bulk.listing[k].ok /\ bulk.listing[k].created = 4 - k
    /\ \A k \in 1..3 : bulk.sections[k].name = bulk.listing[4 - k].name


\* The names of the supported files that can (ok) or cannot be decoded.
NamesOf(ok) ==
    {SupportedFiles[k].name : k \in {i \in 1..Len(SupportedFiles) : SupportedFiles[i].ok = ok}}

\* What the run has recorded agrees with the files it has gone through.
BulkAccounted ==
    /\ bulk.files_processed = Len(bulk.sections)
    /\ bulk.files_failed = Len(bulk.failed_files)
    /\ bulk.pc = "raised" => bulk.sorted = <<>>
    /\ BulkDone =>
          /\ bulk.files_processed + bulk.files_failed = Len(SupportedFiles)
          /\ {bulk.failed_files[k][1] : k \in 1..Len(bulk.failed_files)} = NamesOf(FALSE)
          /\ {bulk.sections[k].name : k \in 1..Len(bulk.sections)} = NamesOf(TRUE)
          /\ ret.call = "anonymize_folder" /\ ret.raised = ""

\* A run that went past the checks of the folder is at one of its files (the
\* guard of BulkFile) or past the last one (the guard of BulkFinish), and every
\* file gone through was counted once.
BulkProgresses ==
    bulk.pc = "files" =>
       /\ bulk.next \in 1..(Len(bulk.sorted) + 1)
       /\ bulk.next = 1 + bulk.files_processed + bulk.files_failed
       /\ ret.raised = ""

\* C24: a file that cannot be decoded is recorded in failed_files and counted
\* in files_failed, every other supported file is processed and counted in
\* files_processed, and the run is never ended by a file: it goes on to the
\* end, where files_processed + files_failed is the number of supported files.
C24_FaultIsolation == BulkAccounted /\ BulkProgresses

\* Two files were merged and the one between them, undecodable, was reported.
C24_Witness ==
    /\ BulkDone
    /\ bulk.files_processed = 2
    /\ bulk.files_failed = 1
    /\ Len(bulk.sorted) = 3
    /\ ~bulk.sorted[2].ok
    /\ bulk.failed_files = <<<<bulk.sorted[2].name, "UnicodeDecodeError">>>>


\* C25: anonymize_file never modifies its input file: whatever input_path,
\* output_path (given or generated) and mapping_id, the file at input_path
\* holds after the call what it held before.
C25_InputUntouched ==
    [][\A p \in InputPaths :
          (pc = "start" /\ ret'.call = "anonymize_file" /\ ret'.real_name = p)
             => disk'[p] = disk[p]]_vars


InResult(e) == \E j \in 1..Len(deduped) : deduped[j] = e
SpanLength(e) == e.end - e.start

\* Two spans handed to _deduplicate overlap and only the first is in the result.
KeptOver(i, k) ==
    /\ Overlaps(all_entities[i], all_entities[k])
    /\ InResult(all_entities[i])
    /\ ~InResult(all_entities[k])

RestoreEntries ==
    IF mapping_id \in MappingIds /\ files[mapping_id] # <<>>
    THEN files[mapping_id][1].entries ELSE <<>>

\* The name the mapping holds for a pseudonym it has.
RealNameOf(pseudonym) ==
    (CHOOSE e \in Range(RestoreEntries) : e.pseudonym = pseudonym).name

\* A type of which the mapping read has the first pseudonym and the one it is
\* a prefix of (Person_A and Person_AA, Company_1 and Company_10).
PrefixPairMapped(entity_type) ==
    /\ \E e \in Range(RestoreEntries) : e.pseudonym = ShortPseudonym(entity_type)
    /\ \E e \in Range(RestoreEntries) : e.pseudonym = LongPseudonym(entity_type)

\* C27: deanonymize_text replaces the longer pseudonym first: in a text made
\* of Person_AA (Company_10), Person_A (Company_1) and blanks every Person_AA is
\* restored to the name mapped to Person_AA, never to the name of Person_A
\* followed by the leftover character.
C27_LongestPseudonymFirst ==
    pc = "deanonymize_text" =>
       \A entity_type \in {"PERSON", "ORG"}, shape \in Shapes :
          (/\ PrefixPairMapped(entity_type)
           /\ anonymized_text = Render(shape, LongPseudonym(entity_type),
                                       ShortPseudonym(entity_type)))
             => restored = Render(shape, RealNameOf(LongPseudonym(entity_type)),
                                  RealNameOf(ShortPseudonym(entity_type)))

\* Person_AA followed by Person_A was restored to N27 and N1.
C27_Witness ==
    /\ pc = "deanonymize_text"
    /\ PrefixPairMapped("PERSON")
    /\ anonymized_text = LongPseudonym("PERSON") \o <<" ">> \o ShortPseudonym("PERSON")
    /\ restored = <<"N", "2", "7", " ", "N", "1">>


\* What _split_into_chunks returns for the text of the call.
Chunks == split_into_chunks(text)

\* The chunks lie one after the other from offset 0 to the end of the text,
\* each the slice of the text at its offset and at most MAX_CHUNK_SIZE long.
ChunksTile ==
    /\ Len(Chunks) >= 1
    /\ Chunks[1].offset = 0
    /\ \A k \in 1..Len(Chunks) :
          /\ Len(Chunks[k].chunk) <= MAX_CHUNK_SIZE
          /\ Chunks[k].chunk = Slice(text, Chunks[k].offset,
                                     Chunks[k].offset + Len(Chunks[k].chunk))
    /\ \A k \in 1..(Len(Chunks) - 1) :
          Chunks[k + 1].offset = Chunks[k].offset + Len(Chunks[k].chunk)
    /\ Chunks[Len(Chunks)].offset + Len(Chunks[Len(Chunks)].chunk) = Len(text)

\* Every split is just after the last newline of the window that lies after the
\* window's first character, or at the ceiling when there is none.
SplitsAtNewline ==
    \A k \in 1..(Len(Chunks) - 1) :
        LET start == Chunks[k].offset
            end == start + MAX_CHUNK_SIZE
            usable == {i \in (start + 1)..(end - 1) : text[i + 1] = "\n"}
        IN Chunks[k + 1].offset = IF usable = {} THEN end ELSE Max(usable) + 1

\* C28 as stated: for every text the chunks are non-empty, at most the ceiling
\* long, contiguous from offset 0 to the end of the text, and split after the
\* last newline of the window or at the ceiling.
C28_Original ==
    Detected =>
        /\ ChunksTile
        /\ SplitsAtNewline
        /\ \A k \in 1..Len(Chunks) : Chunks[k].chunk # <<>>

\* C28 amended: as stated, but the chunks are non-empty only for a text that is
\* not empty; the empty text gives the one chunk ("", 0).
C28_ChunksPartition ==
    Detected =>
        /\ ChunksTile
        /\ SplitsAtNewline
        /\ text # <<>> => \A k \in 1..Len(Chunks) : Chunks[k].chunk # <<>>
        /\ text = <<>> => Chunks = <<[chunk |-> <<>>, offset |-> 0]>>

\* A text longer than the ceiling was split after a newline, short of the
\* ceiling.
C28_Witness ==
    /\ Detected
    /\ Len(Chunks) = 2
    /\ Len(Chunks[1].chunk) < MAX_CHUNK_SIZE
    /\ Chunks[1].chunk[Len(Chunks[1].chunk)] = "\n"


\* The verifier was reached and answered with the array the prompt asks for.
Answered ==
    /\ Verified
    /\ verifier.probe = "200"
    /\ verifier.post = "ok"
    /\ WellFormed(verifier.reply)

\* The text of a candidate is in an item of the reply not marked is_valid=false.
Vouched(e) ==
    \E k \in 1..Len(verifier.reply.items) :
        /\ verifier.reply.items[k].text.value = e.text
        /\ verifier.reply.items[k].is_valid # "false"

C30_DetectionCoverage ==
    Detected =>
        \A k \in Live :
            all_entities[k].confidence >= min_confidence =>
                \E j \in 1..Len(entities) :
                    \/ entities[j] = all_entities[k]
                    \/ Overlaps(all_entities[k], entities[j])

====
